---- MODULE Spec2Model ----
(***************************************************************************)
(* State-machine model of the TalkBot-AI realtime chat client              *)
(* (src/LLM.py, class OpenAIRealtimeChat; src/main.py is the same client   *)
(* written with module-level globals): the websocket callbacks, the        *)
(* session methods, the input (dispatcher) thread, the key-watcher         *)
(* threads and the stream/callback producer thread.                        *)
(*                                                                         *)
(* Text is a sequence of one-character strings, so that strip(), lower()   *)
(* and concatenation are computed, not assumed.                            *)
(***************************************************************************)
EXTENDS Integers, Sequences, FiniteSets, TLC

(***************************************************************************)
(* Bounds of the model.                                                    *)
(***************************************************************************)
\* request_response calls in one run
MaxTurns == 2
\* response.text.delta frames the backend sends for one response
MaxFrags == 2
\* lines typed / texts yielded by the input stream or callback in one run
MaxInputs == 2

(***************************************************************************)
(* Text helpers.                                                           *)
(***************************************************************************)
RECURSIVE Concat(_)
\* ordered concatenation of a sequence of texts
Concat(ts) == IF ts = <<>> THEN <<>> ELSE Head(ts) \o Concat(Tail(ts))

\* str.lower() on the alphabet of the model
LowerChar(c) ==
    CASE c = "E" -> "e"
      [] c = "X" -> "x"
      [] c = "I" -> "i"
      [] c = "T" -> "t"
      [] OTHER -> c

Lower(s) == [i \in 1..Len(s) |-> LowerChar(s[i])]

IsSpace(c) == c = " "

RECURSIVE LStrip(_)
LStrip(s) == IF s # <<>> /\ IsSpace(Head(s)) THEN LStrip(Tail(s)) ELSE s

RECURSIVE RStrip(_)
RStrip(s) ==
    IF s # <<>> /\ IsSpace(s[Len(s)]) THEN RStrip(SubSeq(s, 1, Len(s) - 1)) ELSE s

\* str.strip()
Strip(s) == RStrip(LStrip(s))

\* str.startswith(p)
StartsWith(s, p) == Len(s) >= Len(p) /\ SubSeq(s, 1, Len(p)) = p

ExitCmd == <<"/", "e", "x", "i", "t">>
HelpCmd == <<"/", "h", "e", "l", "p">>
DebugCmd == <<"/", "d", "e", "b", "u", "g">>
InstructionsPrefix ==
    <<"/", "i", "n", "s", "t", "r", "u", "c", "t", "i", "o", "n", "s", " ">>

\* user_input[14:]
AfterInstructions(s) == SubSeq(s, Len(InstructionsPrefix) + 1, Len(s))

(***************************************************************************)
(* Inputs of the environment.                                              *)
(***************************************************************************)
\* the text the backend generates as fragment number k of its response
\* to request number t: every fragment of a run is a different letter
Fragment(t, k) == <<<<"a", "b", "c", "d">>, <<"e", "f", "g", "h">>,
                    <<"i", "j", "k", "l">>, <<"m", "n", "o", "p">>>>[t][k]

\* the "delta" field of a response.text.delta frame that carries no text
NoText == <<>>

\* a line typed at the prompt, a text yielded by the input stream or
\* returned by the input callback
InputTexts ==
    { <<"h", "i">>,
      <<" ", "y", "o", " ">>,
      <<>>,
      <<" ">>,
      ExitCmd,
      <<"/", "E", "X", "I", "T">>,
      HelpCmd,
      DebugCmd,
      InstructionsPrefix \o <<"b", " ">> }

\* a key pressed while a response is printed
Keys == {"k"}

\* what input("") returns after the interrupting key
RestTexts == {<<>>, <<"o">>}

\* the same for a user who starts a blank line or a command while a
\* response is printed
CommandKeys == {" ", "/"}
CommandRests == {<<>>, <<"h", "e", "l", "p">>}

InputModes == {"terminal", "stream", "callback"}

\* the clients of the server that post to /chat/text at the same time
Clients == {1, 2}
\* a request that has not been received: the position of its
\* event_generator, the turn it asked for, its local last_sent, and the
\* delta and full_response payloads it has yielded
NoRequest ==
    [pc |-> "none", turn |-> 0, full_response |-> <<>>, last_sent |-> <<>>,
     deltas |-> <<>>]

NoInput == <<"None">>

(***************************************************************************)
(* Events the client puts on the LLM channel.                              *)
(***************************************************************************)
ItemCreate(message) == [type |-> "conversation.item.create", text |-> message]
ResponseCreate == [type |-> "response.create", text |-> <<>>]
SessionUpdate(instructions) == [type |-> "session.update", text |-> instructions]

(***************************************************************************)
(* State.                                                                  *)
(***************************************************************************)
VARIABLES
    \* the LLM channel and the backend behind it
    wsState,              \* self.ws / self.ws.sock.connected
    helloPending,         \* the backend still has to send session.created
    backend,              \* responses the backend still has to finish, oldest first
    otherPending,         \* frames in flight that on_message has no branch for
    sent,                 \* the events transmitted on the channel, in order
    \* OpenAIRealtimeChat.__init__
    session_ready,
    response_in_progress,
    current_response,
    debug_mode,
    user_input_buffer,
    interrupted,
    input_mode,
    keyboard,             \* what the user types while a response is printed
    requests,             \* the /chat/text requests being served (app/api/routes.py)
    input_queue,
    new_input_event,
    should_exit,
    \* threads
    mainPc,               \* run()
    inputPc,              \* input_thread_function
    user_input,           \* its local user_input
    input_from_queue,     \* its local input_from_queue
    streamPc,             \* process_stream_input / process_callback_input
    watchers,             \* the key_watcher_thread threads started so far
    apiPc,                \* a caller of the session's methods (app/api/routes.py)
    \* history
    turn,                 \* request_response calls so far
    delivered,            \* delta texts received since the last request_response
                          \* (a frame without text adds none)
    emitted,              \* what was printed to the consumer
    interruptedTurns,     \* turns in which interrupt_response returned True
    completed,            \* the last response.done found the turn not interrupted
    nInputs,              \* texts the environment supplied so far
    enqueued,             \* the texts add_input_to_queue appended, in order
    lastOp                \* the operation that made the last step

chanVars == <<wsState, helloPending, backend, otherPending, sent>>
sessVars ==
    <<session_ready, response_in_progress, current_response, debug_mode,
      user_input_buffer, interrupted>>
queueVars == <<input_queue, new_input_event, enqueued>>
threadVars ==
    <<mainPc, inputPc, user_input, input_from_queue, streamPc, watchers, apiPc>>
histVars == <<turn, delivered, emitted, interruptedTurns, completed, nInputs>>
(***************************************************************************)
(* State of the speech-to-text client (STT.py).                            *)
(***************************************************************************)
VARIABLES
    \* STT.__init__
    session_created,
    speech_started,
    speech_stopped,
    keep_running,
    audio_queue,
    delta_transcript_queue,
    full_transcript_queue,
    ws_thread,            \* None, or the thread running ws.run_forever
    audio_thread,
    transmit_thread,
    \* the STT channel and its backend
    sttWs,                \* self.ws and its socket
    sttHello,             \* the backend still has to send transcription_session.created
    \* callers
    startPc,              \* start()
    token,                \* its local token
    stopPc,               \* stop()
    deltaGen,             \* the generator delta_stream() returned
    fullGen,              \* the generator full_transcript_stream() returned
    \* history
    leftover,             \* the three queues as the last start() found them
    tokenRequests,        \* requests.post calls so far
    httpStatus,           \* the status of the last token response
    sttEvents,            \* the frames on_message has handled, in order
    yieldedDelta,         \* what the delta generator yielded
    yieldedFull,          \* what the full-transcript generator yielded
    nChunks,              \* audio chunks read from the microphone
    sttSent,              \* audio chunks transmitted on the channel
    \* the speech synthesis fed by the chat client (TTS.py)
    ttsPc,                \* the module's statements, TTS(...) and tts.run(...)
    stream,               \* TTS.stream: None, or the state of its playback
    is_speaking,          \* TTS.is_speaking
    \* the telephony bridge (server.py): one call of handle_media_stream
    bridgePc,             \* handle_media_stream
    recvPc,               \* receive_from_twilio
    sendPc,               \* send_to_twilio
    stream_sid,
    twilio,               \* the Twilio socket (websocket)
    twilioNext,           \* the next message of Twilio's stream protocol
    openai,               \* openai_ws
    heard,                \* OpenAI has received audio of the caller
    nDeltas,              \* audio deltas OpenAI has sent
    openaiOut,            \* frames OpenAI has sent and send_to_twilio has not read
    sendMsg,              \* the delta send_to_twilio is relaying
    toTwilio              \* the media events sent to Twilio, in order

sttFields ==
    <<session_created, speech_started, speech_stopped, keep_running, audio_queue,
      delta_transcript_queue, full_transcript_queue>>
sttThreads == <<ws_thread, audio_thread, transmit_thread>>
sttChan == <<sttWs, sttHello>>
sttCallers == <<startPc, token, stopPc, deltaGen, fullGen>>
sttHist ==
    <<leftover, tokenRequests, httpStatus, sttEvents, yieldedDelta, yieldedFull, nChunks,
      sttSent>>
ttsVars == <<ttsPc, stream, is_speaking>>
bridgeVars ==
    <<bridgePc, recvPc, sendPc, stream_sid, twilio, twilioNext, openai, heard,
      nDeltas, openaiOut, sendMsg, toTwilio>>
sttVars ==
    <<sttFields, sttThreads, sttChan, sttCallers, sttHist, ttsVars, bridgeVars>>

\* STT.__init__ (an API key is given)
InitStt ==
    /\ session_created = FALSE
    /\ speech_started = "None"
    /\ speech_stopped = "None"
    /\ keep_running = FALSE
    /\ audio_queue = <<>>
    /\ delta_transcript_queue = <<>>
    /\ full_transcript_queue = <<>>
    /\ ws_thread = "None"
    /\ audio_thread = "None"
    /\ transmit_thread = "None"
    /\ sttWs = "none"
    /\ sttHello = FALSE
    /\ startPc = "idle"
    /\ token = "None"
    /\ stopPc = "idle"
    /\ deltaGen = "none"
    /\ fullGen = "none"
    /\ leftover = [audio |-> <<>>, delta |-> <<>>, full |-> <<>>]
    /\ tokenRequests = 0
    /\ httpStatus = 0
    /\ sttEvents = <<>>
    /\ yieldedDelta = <<>>
    /\ yieldedFull = <<>>
    /\ nChunks = 0
    /\ sttSent = <<>>

\* TTS.py before `tts = TTS(stt_instance=stt)`
InitTts ==
    /\ ttsPc = "none"
    /\ stream = "None"
    /\ is_speaking = FALSE

\* handle_media_stream after `await websocket.accept()`
InitBridge ==
    /\ bridgePc = "accepted"
    /\ recvPc = "none"
    /\ sendPc = "none"
    /\ stream_sid = "None"
    /\ twilio = "open"
    /\ twilioNext = "connected"
    /\ openai = "none"
    /\ heard = FALSE
    /\ nDeltas = 0
    /\ openaiOut = <<>>
    /\ sendMsg = 0
    /\ toTwilio = <<>>

\* what no step of the chat client changes
envVars == <<input_mode, keyboard, requests, sttVars>>
vars ==
    <<chanVars, sessVars, envVars, queueVars, should_exit, threadVars, histVars,
      lastOp>>

Op(name, ret) == [op |-> name, ret |-> ret, open |-> wsState = "open"]

\* sys.stdin.isatty(): the terminal client is run from a terminal
IsATty == TRUE

\* the response state of the session, read off the code's fields
ResponseState ==
    IF response_in_progress THEN "InProgress"
    ELSE IF interrupted THEN "Interrupted"
    ELSE IF completed THEN "Complete"
    ELSE "Idle"

InitChat ==
    /\ wsState = "none"
    /\ helloPending = FALSE
    /\ backend = <<>>
    /\ otherPending = 0
    /\ sent = <<>>
    /\ session_ready = FALSE
    /\ response_in_progress = FALSE
    /\ current_response = <<>>
    /\ debug_mode = FALSE
    /\ user_input_buffer = <<>>
    /\ interrupted = FALSE
    /\ input_mode \in InputModes
    /\ input_queue = <<>>
    /\ new_input_event = FALSE
    /\ should_exit = FALSE
    /\ mainPc = "init"
    /\ inputPc = "idle"
    /\ user_input = <<>>
    /\ input_from_queue = NoInput
    /\ streamPc = "idle"
    /\ watchers = <<>>
    /\ apiPc = "idle"
    /\ turn = 0
    /\ delivered = <<>>
    /\ emitted = <<>>
    /\ interruptedTurns = {}
    /\ completed = FALSE
    /\ nInputs = 0
    /\ enqueued = <<>>
    /\ requests = [c \in Clients |-> NoRequest]
    /\ lastOp = [op |-> "init", ret |-> "None", open |-> FALSE]

Init ==
    /\ InitChat
    /\ keyboard = [keys |-> Keys, rests |-> RestTexts]
    /\ InitStt
    /\ InitTts
    /\ InitBridge

(***************************************************************************)
(* The channel: send_event and the effect of a transmitted event on the    *)
(* backend.                                                                *)
(***************************************************************************)
\* the guard of send_event: self.ws and self.ws.sock and self.ws.sock.connected
Connected == wsState = "open"

\* send_event(event_data): the channel's log after the call
send_event(event) == IF Connected THEN Append(sent, event) ELSE sent

\* ws.close(), or the transport going away: what is left of the channel
ChannelGone ==
    /\ wsState' = "closed"
    /\ helloPending' = FALSE
    /\ backend' = <<>>
    /\ otherPending' = 0

\* self.ws.close() called by the input thread: the socket is closed and no
\* frame arrives any more; the websocket thread has still to leave
\* run_forever, which calls on_close
ws_close ==
    /\ wsState' = IF wsState \in {"connecting", "open"} THEN "closing" ELSE wsState
    /\ helloPending' = FALSE
    /\ backend' = <<>>
    /\ otherPending' = 0

(***************************************************************************)
(* Session methods.                                                        *)
(***************************************************************************)
\* a send_user_message that transmits its event twice
send_user_message_twice(message) ==
    /\ sent' = IF Connected
               THEN Append(Append(sent, ItemCreate(message)), ItemCreate(message))
               ELSE sent
    /\ UNCHANGED <<wsState, helloPending, backend, otherPending>>

\* send_user_message(message)
send_user_message(message) ==
    /\ sent' = send_event(ItemCreate(message))
    /\ UNCHANGED <<wsState, helloPending, backend, otherPending>>

\* request_response(): served says whether a backend that is still busy
\* with an earlier response answers this request too or refuses it
request_response(served) ==
    /\ response_in_progress' = TRUE
    /\ current_response' = <<>>
    /\ sent' = send_event(ResponseCreate)
    /\ backend' =
         IF Connected /\ served
         THEN Append(backend, [turn |-> turn + 1, n |-> 0])
         ELSE backend
    /\ otherPending' = IF Connected /\ ~served THEN otherPending + 1 ELSE otherPending
    /\ turn' = turn + 1
    /\ delivered' = <<>>
    /\ completed' = FALSE
    /\ UNCHANGED <<wsState, helloPending>>

\* the answers a backend may give to one more response.create
Served == IF backend = <<>> THEN {TRUE} ELSE BOOLEAN

\* update_session_instructions(instructions)
update_session_instructions(instructions) ==
    /\ sent' = send_event(SessionUpdate(instructions))
    /\ otherPending' = IF Connected THEN otherPending + 1 ELSE otherPending
    /\ UNCHANGED <<wsState, helloPending, backend>>

\* an interrupt_response that does not look at response_in_progress
interrupt_response_untested == TRUE

\* interrupt_response(): its test
interrupt_response_test == response_in_progress

\* interrupt_response(): the branch that returns True
interrupt_response_set ==
    /\ interrupted' = TRUE
    /\ response_in_progress' = FALSE
    /\ interruptedTurns' = interruptedTurns \cup {turn}
    /\ completed' = FALSE

(***************************************************************************)
(* on_message, one definition per branch.                                  *)
(***************************************************************************)
\* "session.created"
on_session_created ==
    /\ session_ready' = TRUE
    /\ UNCHANGED <<response_in_progress, current_response, debug_mode,
                   user_input_buffer, interrupted>>
    /\ UNCHANGED histVars

\* a handler that puts the new text in front
AccumulateInFront(response, text_delta) == text_delta \o response

\* current_response += text_delta
Accumulate(response, text_delta) == response \o text_delta

\* "response.text.delta" of the response to request number t
on_text_delta(text_delta, t) ==
    /\ IF ~interrupted /\ text_delta # <<>>
       THEN /\ current_response' = Accumulate(current_response, text_delta)
            /\ emitted' = Append(emitted, [turn |-> t, text |-> text_delta,
                                           late |-> t \in interruptedTurns])
       ELSE UNCHANGED <<current_response, emitted>>
    /\ delivered' = IF text_delta = NoText THEN delivered ELSE Append(delivered, text_delta)
    /\ UNCHANGED <<session_ready, response_in_progress, debug_mode,
                   user_input_buffer, interrupted>>
    /\ UNCHANGED <<turn, interruptedTurns, completed, nInputs>>

\* a response.done branch that leaves the interrupted flag alone
on_response_done_keeps_flag ==
    /\ response_in_progress' = FALSE
    /\ completed' = ~interrupted
    /\ UNCHANGED <<session_ready, current_response, debug_mode, user_input_buffer,
                   interrupted>>
    /\ UNCHANGED <<turn, delivered, emitted, interruptedTurns, nInputs>>

\* "response.done"
on_response_done ==
    /\ response_in_progress' = FALSE
    /\ interrupted' = FALSE
    /\ completed' = ~interrupted
    /\ UNCHANGED <<session_ready, current_response, debug_mode, user_input_buffer>>
    /\ UNCHANGED <<turn, delivered, emitted, interruptedTurns, nInputs>>

(***************************************************************************)
(* The main thread: run().                                                 *)
(***************************************************************************)
\* run() creates the WebSocketApp and starts the websocket and input threads
Run ==
    /\ mainPc = "init"
    /\ mainPc' = "waiting"
    /\ wsState' = "connecting"
    /\ inputPc' = "start"
    /\ lastOp' = Op("run", "None")
    /\ UNCHANGED <<helloPending, backend, otherPending, sent>>
    /\ UNCHANGED <<sessVars, envVars, queueVars, should_exit, histVars>>
    /\ UNCHANGED <<user_input, input_from_queue, streamPc, watchers, apiPc>>

\* a run() whose loop tests wst.is_alive() only
RunReturnAliveOnly ==
    /\ mainPc = "waiting"
    /\ wsState = "closed"
    /\ mainPc' = "returned"
    /\ lastOp' = Op("run_return", "None")
    /\ UNCHANGED <<chanVars, sessVars, envVars, queueVars, should_exit, histVars>>
    /\ UNCHANGED <<inputPc, user_input, input_from_queue, streamPc, watchers, apiPc>>

\* run(): while wst.is_alive() and not self.should_exit.is_set()
RunReturn ==
    /\ mainPc = "waiting"
    /\ wsState = "closed" \/ should_exit
    /\ mainPc' = "returned"
    /\ lastOp' = Op("run_return", "None")
    /\ UNCHANGED <<chanVars, sessVars, envVars, queueVars, should_exit, histVars>>
    /\ UNCHANGED <<inputPc, user_input, input_from_queue, streamPc, watchers, apiPc>>

(***************************************************************************)
(* The websocket thread: run_forever and the callbacks.                    *)
(***************************************************************************)
\* the handshake succeeds: on_open (prints only)
WsOpen ==
    /\ wsState = "connecting"
    /\ wsState' = "open"
    /\ helloPending' = TRUE
    /\ lastOp' = Op("on_open", "None")
    /\ UNCHANGED <<backend, otherPending, sent>>
    /\ UNCHANGED <<sessVars, envVars, queueVars, should_exit, threadVars, histVars>>

\* the connection fails or is dropped: on_error / on_close (print only)
WsClosed ==
    /\ wsState \in {"connecting", "open"}
    /\ ChannelGone
    /\ lastOp' = Op("on_close", "None")
    /\ UNCHANGED sent
    /\ UNCHANGED <<sessVars, envVars, queueVars, should_exit, threadVars, histVars>>

\* run_forever ends after ws.close(): on_close (prints only)
WsOnClose ==
    /\ wsState = "closing"
    /\ wsState' = "closed"
    /\ lastOp' = Op("on_close", "None")
    /\ UNCHANGED <<helloPending, backend, otherPending, sent>>
    /\ UNCHANGED <<sessVars, envVars, queueVars, should_exit, threadVars, histVars>>

\* the backend's session.created arrives
RecvSessionCreated ==
    /\ wsState = "open"
    /\ helloPending
    /\ helloPending' = FALSE
    /\ on_session_created
    /\ lastOp' = Op("session.created", "None")
    /\ UNCHANGED <<wsState, backend, otherPending, sent>>
    /\ UNCHANGED <<envVars, queueVars, should_exit, threadVars>>

\* a response.text.delta of the oldest unfinished response arrives
RecvTextDelta ==
    /\ wsState = "open"
    /\ backend # <<>>
    /\ Head(backend).n < MaxFrags
    /\ on_text_delta(<<Fragment(Head(backend).turn, Head(backend).n + 1)>>,
                     Head(backend).turn)
    /\ backend' = <<[Head(backend) EXCEPT !.n = @ + 1]>> \o Tail(backend)
    /\ lastOp' = Op("response.text.delta", "None")
    /\ UNCHANGED <<wsState, helloPending, otherPending, sent>>
    /\ UNCHANGED <<envVars, queueVars, should_exit, threadVars>>

\* a response.text.delta without text arrives
RecvBlankDelta ==
    /\ wsState = "open"
    /\ backend # <<>>
    /\ on_text_delta(NoText, Head(backend).turn)
    /\ lastOp' = Op("response.text.delta", "None")
    /\ UNCHANGED <<wsState, helloPending, backend, otherPending, sent>>
    /\ UNCHANGED <<envVars, queueVars, should_exit, threadVars>>

\* the response.done of the oldest unfinished response arrives
RecvResponseDone ==
    /\ wsState = "open"
    /\ backend # <<>>
    /\ on_response_done
    /\ backend' = Tail(backend)
    /\ lastOp' = Op("response.done", "None")
    /\ UNCHANGED <<wsState, helloPending, otherPending, sent>>
    /\ UNCHANGED <<envVars, queueVars, should_exit, threadVars>>

\* a frame no branch of on_message handles arrives (session.updated is
\* only printed, an error frame is ignored)
RecvOther ==
    /\ wsState = "open"
    /\ otherPending > 0
    /\ otherPending' = otherPending - 1
    /\ lastOp' = Op("other", "None")
    /\ UNCHANGED <<wsState, helloPending, backend, sent>>
    /\ UNCHANGED <<sessVars, envVars, queueVars, should_exit, threadVars, histVars>>

(***************************************************************************)
(* The producer thread of the stream and callback modes.                   *)
(***************************************************************************)
\* add_input_to_queue(input_text): the queue after the call
add_input_to_queue(input_text) ==
    IF input_text = <<>> \/ Strip(input_text) = <<>>
    THEN UNCHANGED queueVars
    ELSE /\ input_queue' = Append(input_queue, Strip(input_text))
         /\ new_input_event' = TRUE
         /\ enqueued' = Append(enqueued, Strip(input_text))

\* process_stream_input: the stream yields one more text
StreamYield ==
    /\ streamPc = "running"
    /\ input_mode = "stream"
    /\ nInputs < MaxInputs
    /\ nInputs' = nInputs + 1
    /\ IF should_exit
       THEN streamPc' = "ended" /\ UNCHANGED queueVars
       ELSE /\ UNCHANGED streamPc
            /\ \E text \in InputTexts :
                  IF text # <<>> /\ Strip(text) # <<>>
                  THEN add_input_to_queue(text)
                  ELSE UNCHANGED queueVars
    /\ lastOp' = Op("process_stream_input", "None")
    /\ UNCHANGED <<chanVars, sessVars, envVars, should_exit>>
    /\ UNCHANGED <<mainPc, inputPc, user_input, input_from_queue, watchers, apiPc>>
    /\ UNCHANGED <<turn, delivered, emitted, interruptedTurns, completed>>

\* process_stream_input: the stream is exhausted
StreamEnd ==
    /\ streamPc = "running"
    /\ input_mode = "stream"
    /\ streamPc' = "ended"
    /\ lastOp' = Op("process_stream_input", "None")
    /\ UNCHANGED <<chanVars, sessVars, envVars, queueVars, should_exit, histVars>>
    /\ UNCHANGED <<mainPc, inputPc, user_input, input_from_queue, watchers, apiPc>>

\* process_callback_input: one round of the loop; the callback returns a
\* text or None
CallbackPoll ==
    /\ streamPc = "running"
    /\ input_mode = "callback"
    /\ IF should_exit
       THEN streamPc' = "ended" /\ UNCHANGED <<queueVars, nInputs>>
       ELSE /\ nInputs < MaxInputs
            /\ nInputs' = nInputs + 1
            /\ UNCHANGED streamPc
            /\ \E text \in InputTexts \cup {NoInput} :
                  IF text # NoInput
                  THEN add_input_to_queue(text)
                  ELSE UNCHANGED queueVars
    /\ lastOp' = Op("process_callback_input", "None")
    /\ UNCHANGED <<chanVars, sessVars, envVars, should_exit>>
    /\ UNCHANGED <<mainPc, inputPc, user_input, input_from_queue, watchers, apiPc>>
    /\ UNCHANGED <<turn, delivered, emitted, interruptedTurns, completed>>

(***************************************************************************)
(* The key-watcher threads (terminal mode).                                *)
(***************************************************************************)
SetWatcher(w, pc, char) == watchers' = [watchers EXCEPT ![w] = [pc |-> pc, char |-> char]]

\* key_watcher_thread: a response is in progress and a key is read
KwPoll(w) ==
    /\ watchers[w].pc = "loop"
    /\ response_in_progress /\ IsATty
    /\ \E char \in keyboard.keys : SetWatcher(w, "call", char)
    /\ lastOp' = Op("key_watcher_thread", "None")
    /\ UNCHANGED <<chanVars, sessVars, envVars, queueVars, should_exit, histVars>>
    /\ UNCHANGED <<mainPc, inputPc, user_input, input_from_queue, streamPc, apiPc>>

\* key_watcher_thread calls interrupt_response(): the test
KwCall(w) ==
    /\ watchers[w].pc = "call"
    /\ IF interrupt_response_test
       THEN /\ SetWatcher(w, "set", watchers[w].char)
            /\ lastOp' = Op("interrupt_response", "entered")
       ELSE /\ SetWatcher(w, "loop", "none")
            /\ lastOp' = Op("interrupt_response", "False")
    /\ UNCHANGED <<chanVars, sessVars, envVars, queueVars, should_exit, histVars>>
    /\ UNCHANGED <<mainPc, inputPc, user_input, input_from_queue, streamPc, apiPc>>

\* interrupt_response(): the assignments, and return True
KwSet(w) ==
    /\ watchers[w].pc = "set"
    /\ interrupt_response_set
    /\ SetWatcher(w, "store", watchers[w].char)
    /\ lastOp' = Op("interrupt_response", "True")
    /\ UNCHANGED <<session_ready, current_response, debug_mode, user_input_buffer>>
    /\ UNCHANGED <<turn, delivered, emitted, nInputs>>
    /\ UNCHANGED <<chanVars, envVars, queueVars, should_exit>>
    /\ UNCHANGED <<mainPc, inputPc, user_input, input_from_queue, streamPc, apiPc>>

\* key_watcher_thread: self.user_input_buffer = char; break
KwStore(w) ==
    /\ watchers[w].pc = "store"
    /\ user_input_buffer' = <<watchers[w].char>>
    /\ SetWatcher(w, "exited", "none")
    /\ lastOp' = Op("key_watcher_thread", "None")
    /\ UNCHANGED <<session_ready, response_in_progress, current_response, debug_mode,
                   interrupted>>
    /\ UNCHANGED <<chanVars, envVars, queueVars, should_exit, histVars>>
    /\ UNCHANGED <<mainPc, inputPc, user_input, input_from_queue, streamPc, apiPc>>

(***************************************************************************)
(* The input thread: input_thread_function.                                *)
(***************************************************************************)
\* the producer thread is started
InputStart ==
    /\ inputPc = "start"
    /\ inputPc' = "top"
    /\ streamPc' = IF input_mode \in {"stream", "callback"} THEN "running" ELSE streamPc
    /\ lastOp' = Op("input_thread_function", "None")
    /\ UNCHANGED <<chanVars, sessVars, envVars, queueVars, should_exit, histVars>>
    /\ UNCHANGED <<mainPc, user_input, input_from_queue, watchers, apiPc>>

\* the top of the loop, terminal mode
InputTopTerminal ==
    /\ inputPc = "top"
    /\ session_ready
    /\ input_mode = "terminal"
    /\ IF response_in_progress
       THEN /\ watchers' = Append(watchers, [pc |-> "loop", char |-> "none"])
            /\ inputPc' = "keywait"
       ELSE /\ UNCHANGED watchers
            /\ inputPc' = "input"
    /\ lastOp' = Op("input_thread_function", "None")
    /\ UNCHANGED <<chanVars, sessVars, envVars, queueVars, should_exit, histVars>>
    /\ UNCHANGED <<mainPc, user_input, input_from_queue, streamPc, apiPc>>

\* the top of the loop, stream and callback modes: pop the queue, then
\* look at response_in_progress
InputTopQueue ==
    /\ inputPc = "top"
    /\ session_ready
    /\ input_mode \in {"stream", "callback"}
    /\ input_queue # <<>> \/ response_in_progress
    /\ LET popped == IF input_queue # <<>> THEN Head(input_queue) ELSE NoInput
       IN  /\ input_from_queue' = popped
           /\ input_queue' = IF input_queue # <<>> THEN Tail(input_queue) ELSE input_queue
           /\ new_input_event' =
                IF input_queue # <<>> /\ Tail(input_queue) = <<>>
                THEN FALSE
                ELSE new_input_event
           /\ IF response_in_progress
              THEN inputPc' = "respwait" /\ UNCHANGED user_input
              ELSE inputPc' = "cmd" /\ user_input' = popped
    /\ lastOp' = Op("input_thread_function", "None")
    /\ UNCHANGED <<chanVars, sessVars, envVars, should_exit, histVars>>
    /\ UNCHANGED <<mainPc, streamPc, watchers, apiPc, enqueued>>

\* terminal mode: input("\nYou: ") returns a line
InputRead ==
    /\ inputPc = "input"
    /\ nInputs < MaxInputs
    /\ nInputs' = nInputs + 1
    /\ \E text \in InputTexts : user_input' = text
    /\ inputPc' = "cmd"
    /\ lastOp' = Op("input_thread_function", "None")
    /\ UNCHANGED <<chanVars, sessVars, envVars, queueVars, should_exit>>
    /\ UNCHANGED <<mainPc, input_from_queue, streamPc, watchers, apiPc>>
    /\ UNCHANGED <<turn, delivered, emitted, interruptedTurns, completed>>

\* terminal mode: input("\nYou: ") raises EOFError
InputEof ==
    /\ inputPc = "input"
    /\ ws_close
    /\ inputPc' = "stopped"
    /\ lastOp' = Op("ws.close", "None")
    /\ UNCHANGED sent
    /\ UNCHANGED <<sessVars, envVars, queueVars, should_exit, histVars>>
    /\ UNCHANGED <<mainPc, user_input, input_from_queue, streamPc, watchers, apiPc>>

\* terminal mode: the wait for the key watcher or the end of the response
InputKeyWait ==
    /\ inputPc = "keywait"
    /\ ~response_in_progress \/ watchers[Len(watchers)].pc = "exited"
    /\ inputPc' = IF user_input_buffer # <<>> THEN "rest" ELSE "top"
    /\ lastOp' = Op("input_thread_function", "None")
    /\ UNCHANGED <<chanVars, sessVars, envVars, queueVars, should_exit, histVars>>
    /\ UNCHANGED <<mainPc, user_input, input_from_queue, streamPc, watchers, apiPc>>

\* terminal mode: input("") returns the rest of the interrupting line
InputRest ==
    /\ inputPc = "rest"
    /\ \E rest_of_input \in keyboard.rests : user_input' = user_input_buffer \o rest_of_input
    /\ user_input_buffer' = <<>>
    /\ inputPc' = "cmd"
    /\ lastOp' = Op("input_thread_function", "None")
    /\ UNCHANGED <<session_ready, response_in_progress, current_response, debug_mode,
                   interrupted>>
    /\ UNCHANGED <<chanVars, envVars, queueVars, should_exit, histVars>>
    /\ UNCHANGED <<mainPc, input_from_queue, streamPc, watchers, apiPc>>

\* stream and callback modes: while self.response_in_progress: sleep
InputRespWait ==
    /\ inputPc = "respwait"
    /\ ~response_in_progress
    /\ IF input_from_queue # NoInput
       THEN inputPc' = "cmd" /\ user_input' = input_from_queue
       ELSE inputPc' = "top" /\ UNCHANGED user_input
    /\ lastOp' = Op("input_thread_function", "None")
    /\ UNCHANGED <<chanVars, sessVars, envVars, queueVars, should_exit, histVars>>
    /\ UNCHANGED <<mainPc, input_from_queue, streamPc, watchers, apiPc>>

\* the directive a line is, as the if/elif chain decides it
Directive(line) ==
    IF Lower(line) = ExitCmd THEN "exit"
    ELSE IF Lower(line) = HelpCmd THEN "help"
    ELSE IF StartsWith(Lower(line), InstructionsPrefix) THEN "instructions"
    ELSE IF Lower(line) = DebugCmd THEN "debug"
    ELSE IF Strip(line) = <<>> THEN "blank"
    ELSE "message"

\* the command checks; a normal message is sent with send_user_message
InputCmd ==
    /\ inputPc = "cmd"
    /\ LET kind == Directive(user_input)
       IN  /\ kind = "message" => turn < MaxTurns
           /\ inputPc' =
                CASE kind = "exit" -> "stopped"
                  [] kind = "message" -> "request"
                  [] OTHER -> "top"
           /\ should_exit' = IF kind = "exit" THEN TRUE ELSE should_exit
           /\ debug_mode' = IF kind = "debug" THEN ~debug_mode ELSE debug_mode
           /\ CASE kind = "exit" -> ws_close /\ UNCHANGED sent
                [] kind = "instructions" ->
                     update_session_instructions(Strip(AfterInstructions(user_input)))
                [] kind = "message" -> send_user_message(user_input)
                [] OTHER -> UNCHANGED chanVars
           /\ lastOp' =
                CASE kind = "exit" -> Op("ws.close", "None")
                  [] kind = "instructions" -> Op("update_session_instructions", "None")
                  [] kind = "message" -> Op("send_user_message", "None")
                  [] OTHER -> Op("input_thread_function", "None")
    /\ UNCHANGED <<session_ready, response_in_progress, current_response,
                   user_input_buffer, interrupted>>
    /\ user_input' = IF Directive(user_input) = "message" THEN user_input ELSE <<>>
    /\ input_from_queue' = NoInput
    /\ UNCHANGED <<envVars, queueVars, histVars>>
    /\ UNCHANGED <<mainPc, streamPc, watchers, apiPc>>

\* the normal message flow goes on: request_response()
InputRequest ==
    /\ inputPc = "request"
    /\ \E served \in Served : request_response(served)
    /\ inputPc' = "top"
    /\ lastOp' = Op("request_response", "None")
    /\ UNCHANGED <<session_ready, debug_mode, user_input_buffer, interrupted>>
    /\ UNCHANGED <<emitted, interruptedTurns, nInputs>>
    /\ user_input' = <<>>
    /\ UNCHANGED <<envVars, queueVars, should_exit>>
    /\ UNCHANGED <<mainPc, input_from_queue, streamPc, watchers, apiPc>>

(***************************************************************************)
(* The chat client.                                                        *)
(***************************************************************************)
WsThread ==
    \/ WsOpen
    \/ WsClosed
    \/ RecvSessionCreated
    \/ RecvTextDelta
    \/ RecvBlankDelta
    \/ RecvResponseDone
    \/ RecvOther

InputThread ==
    \/ InputStart
    \/ InputTopTerminal
    \/ InputTopQueue
    \/ InputRead
    \/ InputEof
    \/ InputKeyWait
    \/ InputRest
    \/ InputRespWait
    \/ InputCmd
    \/ InputRequest

KeyWatchers ==
    \E w \in 1..Len(watchers) : KwPoll(w) \/ KwCall(w) \/ KwSet(w) \/ KwStore(w)

Producer == StreamYield \/ StreamEnd \/ CallbackPoll

Next ==
    \/ Run
    \/ RunReturn
    \/ WsThread
    \/ WsOnClose
    \/ InputThread
    \/ KeyWatchers
    \/ Producer

Spec == Init /\ [][Next]_vars

\* the chat client with a user who starts blank lines and commands while a
\* response is printed
InitKeys ==
    /\ InitChat
    /\ keyboard = [keys |-> CommandKeys, rests |-> CommandRests]
    /\ InitStt
    /\ InitTts
    /\ InitBridge

SpecKeys == InitKeys /\ [][Next]_vars

(***************************************************************************)
(* The session driven through its methods by a caller of its own, as the   *)
(* /chat/text route does (app/api/routes.py): send_user_message, then       *)
(* request_response, with no look at response_in_progress; and              *)
(* interrupt_response.  The input thread is given no input.                 *)
(***************************************************************************)
\* the "text" of a /chat/text request (an empty one is refused with 400)
ApiTexts == {<<"h", "i">>, <<"o", "k">>}

\* send_message: chat_system.send_user_message(message["text"])
ApiSend ==
    /\ apiPc = "idle"
    /\ turn < MaxTurns
    /\ \E message \in ApiTexts : send_user_message(message)
    /\ apiPc' = "request"
    /\ lastOp' = Op("send_user_message", "None")
    /\ UNCHANGED <<sessVars, envVars, queueVars, should_exit, histVars>>
    /\ UNCHANGED <<mainPc, inputPc, user_input, input_from_queue, streamPc, watchers>>

\* send_message: chat_system.request_response()
ApiRequest ==
    /\ apiPc = "request"
    /\ \E served \in Served : request_response(served)
    /\ apiPc' = "idle"
    /\ lastOp' = Op("request_response", "None")
    /\ UNCHANGED <<session_ready, debug_mode, user_input_buffer, interrupted>>
    /\ UNCHANGED <<emitted, interruptedTurns, nInputs>>
    /\ UNCHANGED <<envVars, queueVars, should_exit>>
    /\ UNCHANGED <<mainPc, inputPc, user_input, input_from_queue, streamPc, watchers>>

\* a call of interrupt_response()
ApiInterrupt ==
    /\ apiPc = "idle"
    /\ IF interrupt_response_test
       THEN /\ interrupt_response_set
            /\ lastOp' = Op("interrupt_response", "True")
       ELSE /\ UNCHANGED <<interrupted, response_in_progress, interruptedTurns,
                           completed>>
            /\ lastOp' = Op("interrupt_response", "False")
    /\ UNCHANGED <<session_ready, current_response, debug_mode, user_input_buffer>>
    /\ UNCHANGED <<turn, delivered, emitted, nInputs>>
    /\ UNCHANGED <<chanVars, envVars, queueVars, should_exit, threadVars>>

NextApi ==
    \/ Run
    \/ WsThread
    \/ ApiSend
    \/ ApiRequest
    \/ ApiInterrupt

SpecApi == Init /\ [][NextApi]_vars

(***************************************************************************)
(* The server's /chat/text route (app/api/routes.py): every request runs   *)
(* event_generator on the one module-level chat_system.  The coroutines of *)
(* the event loop interleave at their awaits; the session's callbacks run  *)
(* as in the chat client.                                                  *)
(***************************************************************************)
\* message["text"] of the request of client c
ClientText(c) == IF c = 1 THEN <<"h", "i">> ELSE <<"o", "k">>

SetRequest(c, r) == requests' = [requests EXCEPT ![c] = r]

\* event_generator: await chat_system.send_user_message(message["text"])
RouteSend(c) ==
    /\ requests[c].pc = "none"
    /\ turn < MaxTurns
    /\ send_user_message(ClientText(c))
    /\ SetRequest(c, [requests[c] EXCEPT !.pc = "request"])
    /\ lastOp' = Op("send_user_message", "None")
    /\ UNCHANGED <<sessVars, input_mode, keyboard, sttVars, queueVars, should_exit,
                   threadVars, histVars>>

\* event_generator: await chat_system.request_response()
RouteRequest(c) ==
    /\ requests[c].pc = "request"
    /\ \E served \in Served : request_response(served)
    /\ SetRequest(c, [requests[c] EXCEPT !.pc = "poll", !.turn = turn + 1])
    /\ lastOp' = Op("request_response", "None")
    /\ UNCHANGED <<session_ready, debug_mode, user_input_buffer, interrupted>>
    /\ UNCHANGED <<emitted, interruptedTurns, nInputs>>
    /\ UNCHANGED <<input_mode, keyboard, sttVars, queueVars, should_exit, threadVars>>

\* event_generator: the loop `while chat_system.response_in_progress` ends
\* and the end message carries chat_system.current_response
RouteDone(c) ==
    /\ requests[c].pc = "poll"
    /\ ~response_in_progress
    /\ SetRequest(c, [requests[c] EXCEPT !.pc = "done",
                                         !.full_response = current_response])
    /\ lastOp' = Op("full_response", "None")
    /\ UNCHANGED <<chanVars, sessVars, input_mode, keyboard, sttVars, queueVars,
                   should_exit, threadVars, histVars>>

RouteSendMessage == \E c \in Clients : RouteSend(c) \/ RouteRequest(c) \/ RouteDone(c)

NextRoutes ==
    \/ Run
    \/ WsThread
    \/ RouteSendMessage

SpecRoutes == Init /\ [][NextRoutes]_vars

TypeOK ==
    /\ wsState \in {"none", "connecting", "open", "closing", "closed"}
    /\ response_in_progress \in BOOLEAN
    /\ interrupted \in BOOLEAN
    /\ turn \in 0..MaxTurns
    /\ Len(input_queue) <= MaxInputs
    /\ Len(watchers) <= MaxTurns

(***************************************************************************)
(* Claims.                                                                 *)
(***************************************************************************)
SessionFields ==
    <<session_ready, response_in_progress, current_response, debug_mode,
      user_input_buffer, interrupted>>

\* C1: when response.done has been processed and no interrupt_response has
\* returned True, current_response is the ordered concatenation of the
\* delta texts delivered since the turn's request_response.
C1_DoneHasConcatenation ==
    (lastOp.op = "response.done" /\ interruptedTurns = {})
        => current_response = Concat(delivered)

\* a turn with two fragments has ended, uninterrupted
C1_Witness ==
    /\ lastOp.op = "response.done"
    /\ interruptedTurns = {}
    /\ Len(delivered) >= 2
    /\ current_response = delivered[1] \o delivered[2]

\* C2: no fragment of a turn reaches the consumer (nor current_response)
\* once interrupt_response has returned True in that turn.
C2_NoFragmentAfterInterrupt == \A i \in 1..Len(emitted) : ~emitted[i].late

\* C3: a call of interrupt_response that finds the session not in progress
\* returns False and changes no session field; and no step of
\* interrupt_response changes a session field of a session that is
\* already interrupted.
C3_InterruptNoOp ==
    [][ /\ ( /\ lastOp'.op = "interrupt_response"
             /\ lastOp'.ret # "True"
             /\ ~response_in_progress )
           => (lastOp'.ret = "False" /\ UNCHANGED SessionFields)
        /\ ( /\ lastOp'.op = "interrupt_response"
             /\ interrupted
             /\ ~response_in_progress )
           => UNCHANGED SessionFields ]_vars

\* a second interruption, made while the first is still draining, has
\* returned False
C3_Witness ==
    /\ lastOp.op = "interrupt_response"
    /\ lastOp.ret = "False"
    /\ interrupted
    /\ ~response_in_progress

\* C4: send_user_message called while a response is in progress and not
\* interrupted fails with ResponseBusy, sends nothing and changes neither
\* current_response nor response_in_progress.
C4_ResponseBusy ==
    [][ ( /\ lastOp'.op \in {"send_user_message", "request_response"}
          /\ response_in_progress
          /\ ~interrupted )
        => ( /\ lastOp'.ret = "ResponseBusy"
             /\ UNCHANGED <<sent, current_response, response_in_progress>> ) ]_vars

\* C5: request_response sets response_in_progress only in the Idle or the
\* Complete state.
C5_InProgressOnlyFromIdleOrComplete ==
    [][ lastOp'.op = "request_response" => ResponseState \in {"Idle", "Complete"} ]_vars

\* C6: current_response is empty in the Idle state.
C6_TextOnlyInATurn == ResponseState = "Idle" => current_response = <<>>

\* C7: after response.done has been processed the interrupted flag is false.
C7_DoneClearsInterrupted == lastOp.op = "response.done" => ~interrupted

\* the response.done of an interrupted turn has been processed
C7_Witness ==
    /\ lastOp.op = "response.done"
    /\ turn \in interruptedTurns
    /\ ~completed
    /\ ~interrupted

\* C8: after on_close the session is Idle: response_in_progress and
\* interrupted are false and current_response is empty.
C8_CloseAbortsTurn ==
    lastOp.op = "on_close"
        => (~response_in_progress /\ ~interrupted /\ current_response = <<>>)

\* C9: a send on a channel that is not open gives its caller NotConnected.
C9_SendFailsWhenNotOpen ==
    ( /\ lastOp.op \in {"send_user_message", "request_response",
                        "update_session_instructions"}
      /\ ~lastOp.open )
    => lastOp.ret = "NotConnected"

\* C10: on the channel every conversation item is immediately followed by
\* the response request of the same submit, and every response request
\* follows its conversation item; the item carries the submitted text; a
\* submit sends one event of each kind; request_response leaves
\* current_response empty.
C10_SubmitIsItemThenRequest ==
    /\ \A i \in 1..Len(sent) :
          /\ sent[i].type = "conversation.item.create" =>
                IF i < Len(sent)
                THEN sent[i + 1].type = "response.create"
                ELSE inputPc = "request" \/ ~Connected
          /\ sent[i].type = "response.create" =>
                i > 1 /\ sent[i - 1].type = "conversation.item.create"
    /\ (lastOp.op = "send_user_message" /\ lastOp.open) =>
          sent[Len(sent)] = ItemCreate(user_input)
    /\ lastOp.op = "request_response" => current_response = <<>>
    /\ (lastOp.op = "request_response" /\ lastOp.open) =>
          sent[Len(sent)] = ResponseCreate
    /\ Cardinality({i \in 1..Len(sent) : sent[i].type = "response.create"}) <= turn

\* a second submit has been transmitted, after a first one whose response
\* left text in current_response
C10_Witness ==
    /\ lastOp.op = "request_response"
    /\ lastOp.open
    /\ Len(sent) >= 4
    /\ sent[Len(sent) - 1].type = "conversation.item.create"
    /\ sent[Len(sent) - 1].text # <<>>
    /\ emitted # <<>>

\* the texts of the conversation items on the channel, in order
ItemTexts ==
    LET items == SelectSeq(sent, LAMBDA e : e.type = "conversation.item.create")
    IN  [i \in 1..Len(items) |-> items[i].text]

IsMessage(line) == Directive(line) = "message"

\* how many queued texts the dispatcher has popped and dealt with
Consumed ==
    Len(enqueued) - Len(input_queue) - (IF input_from_queue # NoInput THEN 1 ELSE 0)

\* C11: in the stream and callback modes the conversation items on the
\* channel are, in order and one each, the messages among the queued texts
\* the dispatcher has dealt with: none is lost, doubled or out of order.
C11_NoMessageLost ==
    input_mode \in {"stream", "callback"} =>
        ItemTexts = SelectSeq(SubSeq(enqueued, 1, Consumed), IsMessage)

\* C12: a response does not run to completion while the dispatcher holds
\* a new input that arrived during it: the input interrupts it.
C12_NewInputInterrupts ==
    ~( /\ inputPc = "respwait"
       /\ input_from_queue # NoInput
       /\ lastOp.op = "response.done"
       /\ completed )

\* a whitespace-only text
IsBlank(line) == Strip(line) = <<>>

\* the input thread runs the command checks on its line
HandlesLine == inputPc = "cmd" /\ inputPc' # "cmd"

\* the input thread puts together the line whose first key interrupted a
\* response
InterruptingLine == inputPc = "rest" /\ inputPc' = "cmd"

\* C13: a whitespace-only input is never queued, never sent as a
\* conversation item, starts no response and changes no session field:
\* the command checks leave the session and the channel alone, and no
\* blank line has interrupted a response.
C13_BlankInputDropped ==
    [][ /\ \A i \in 1..Len(input_queue') : ~IsBlank(input_queue'[i])
        /\ \A i \in 1..Len(ItemTexts') : ~IsBlank(ItemTexts'[i])
        /\ (HandlesLine /\ IsBlank(user_input))
              => UNCHANGED <<sessVars, chanVars, turn>>
        /\ ~(InterruptingLine /\ IsBlank(user_input')) ]_vars

IsDirective(line) == Directive(line) \in {"exit", "help", "instructions", "debug"}

\* C14: a control directive is never sent as a conversation item and
\* never starts a response; /instructions sends a session.update and
\* nothing else, /debug only toggles debug_mode, /help changes nothing of
\* the session; and no directive has interrupted a response.
C14_DirectivesIntercepted ==
    [][ /\ \A i \in 1..Len(ItemTexts') : ~IsDirective(ItemTexts'[i])
        /\ (HandlesLine /\ IsDirective(user_input))
              => /\ ItemTexts' = ItemTexts
                 /\ UNCHANGED <<response_in_progress, turn>>
        /\ (HandlesLine /\ Directive(user_input) = "instructions")
              => /\ sent' \in {sent, Append(sent,
                        SessionUpdate(Strip(AfterInstructions(user_input))))}
                 /\ UNCHANGED sessVars
        /\ (HandlesLine /\ Directive(user_input) = "debug")
              => /\ debug_mode' = ~debug_mode
                 /\ UNCHANGED <<chanVars, session_ready, response_in_progress,
                                current_response, user_input_buffer, interrupted>>
        /\ (HandlesLine /\ Directive(user_input) = "help")
              => UNCHANGED <<sessVars, chanVars>>
        /\ ~(InterruptingLine /\ IsDirective(user_input')) ]_vars

(***************************************************************************)
(* The speech-to-text client: STT.py.                                      *)
(***************************************************************************)
\* frames the backend sends after transcription_session.created, in a run
MaxSttEvents == 3
\* audio chunks the microphone delivers in a run
MaxChunks == 1

\* what no step of the STT client changes
chatVars ==
    <<chanVars, sessVars, input_mode, keyboard, requests, queueVars, should_exit,
      threadVars, histVars, lastOp, ttsVars, bridgeVars>>

\* the status of the response to the token request
HttpStatuses == {200, 401, 500}

\* get_ephemeral_token: what it returns on a response with this status
get_ephemeral_token_lenient(status) == "secret"

get_ephemeral_token(status) == IF status = 200 THEN "secret" ELSE "None"

\* the types of frame on_message has a branch for, besides
\* transcription_session.created
SttFrameTypes ==
    { "input_audio_buffer.speech_started",
      "input_audio_buffer.speech_stopped",
      "input_audio_buffer.committed",
      "conversation.item.input_audio_transcription.delta",
      "conversation.item.input_audio_transcription.completed" }

\* the text in the k-th frame of a run: every frame carries a different one
SttText(k) == <<"t1", "t2", "t3", "t4", "t5", "t6">>[k]

\* on_message with the transcript branches exchanged
stt_on_message_crossed(type, text) ==
    /\ session_created' =
          IF type = "transcription_session.created" THEN TRUE ELSE session_created
    /\ speech_started' =
          IF type = "input_audio_buffer.speech_started" THEN "ms" ELSE speech_started
    /\ speech_stopped' =
          IF type = "input_audio_buffer.speech_stopped" THEN "ms" ELSE speech_stopped
    /\ delta_transcript_queue' =
          IF type = "conversation.item.input_audio_transcription.completed"
          THEN Append(delta_transcript_queue, text)
          ELSE delta_transcript_queue
    /\ full_transcript_queue' =
          IF type = "conversation.item.input_audio_transcription.delta"
          THEN Append(full_transcript_queue, text)
          ELSE full_transcript_queue

\* on_message(ws, message): the branch taken for a frame of this type
stt_on_message(type, text) ==
    /\ session_created' =
          IF type = "transcription_session.created" THEN TRUE ELSE session_created
    /\ speech_started' =
          IF type = "input_audio_buffer.speech_started" THEN "ms" ELSE speech_started
    /\ speech_stopped' =
          IF type = "input_audio_buffer.speech_stopped" THEN "ms" ELSE speech_stopped
    /\ delta_transcript_queue' =
          IF type = "conversation.item.input_audio_transcription.delta"
          THEN Append(delta_transcript_queue, text)
          ELSE delta_transcript_queue
    /\ full_transcript_queue' =
          IF type = "conversation.item.input_audio_transcription.completed"
          THEN Append(full_transcript_queue, text)
          ELSE full_transcript_queue

\* on_close(ws, close_status_code, close_msg), and the end of run_forever
stt_on_close ==
    /\ keep_running' = FALSE
    /\ sttWs' = "closed"
    /\ sttHello' = FALSE
    /\ ws_thread' = "ended"

\* queue.get(timeout=...) on this queue comes back, with an item or with
\* queue.Empty
queue_get_blocking(q) == q # <<>>

queue_get(q) == TRUE

\* start(): token = self.get_ephemeral_token()
SttStartToken ==
    /\ startPc = "idle"
    /\ \E status \in HttpStatuses :
          /\ httpStatus' = status
          /\ token' = get_ephemeral_token(status)
    /\ tokenRequests' = tokenRequests + 1
    /\ startPc' = "token"
    /\ UNCHANGED <<sttFields, sttThreads, sttChan, stopPc, deltaGen, fullGen>>
    /\ UNCHANGED <<leftover, sttEvents, yieldedDelta, yieldedFull, nChunks, sttSent>>
    /\ UNCHANGED chatVars

\* start(): raise if there is no token; otherwise set the flags, create the
\* WebSocketApp and start its thread
SttStartConnect ==
    /\ startPc = "token"
    /\ IF token = "None"
       THEN /\ startPc' = "raised_auth"
            /\ UNCHANGED <<keep_running, session_created, sttWs, ws_thread>>
       ELSE /\ keep_running' = TRUE
            /\ session_created' = FALSE
            /\ sttWs' = "connecting"
            /\ ws_thread' = "running"
            /\ startPc' = "wait"
    /\ UNCHANGED <<speech_started, speech_stopped, audio_queue>>
    /\ UNCHANGED <<delta_transcript_queue, full_transcript_queue>>
    /\ leftover' = IF token = "None"
                   THEN leftover
                   ELSE [audio |-> audio_queue, delta |-> delta_transcript_queue,
                         full |-> full_transcript_queue]
    /\ UNCHANGED <<audio_thread, transmit_thread, sttHello>>
    /\ UNCHANGED <<token, stopPc, deltaGen, fullGen, chatVars>>
    /\ UNCHANGED <<tokenRequests, httpStatus, sttEvents, yieldedDelta, yieldedFull,
                   nChunks, sttSent>>

\* start(): the audio threads are started and the generators returned
StartThreads ==
    /\ audio_thread' = "running"
    /\ transmit_thread' = "running"
    /\ deltaGen' = "new"
    /\ fullGen' = "new"
    /\ startPc' = "returned"

\* start(): the wait loop sees session_created
SttStartReady ==
    /\ startPc = "wait"
    /\ session_created
    /\ StartThreads
    /\ UNCHANGED <<sttFields, ws_thread, sttChan, token, stopPc, sttHist, chatVars>>

\* start(): ten seconds have passed without session_created
SttStartTimeout ==
    /\ startPc = "wait"
    /\ ~session_created
    /\ startPc' = "check"
    /\ UNCHANGED <<sttFields, sttThreads, sttChan, token, stopPc, deltaGen, fullGen>>
    /\ UNCHANGED <<sttHist, chatVars>>

\* a start() that goes on after the timeout whether or not the session
\* was created
SttStartCheckLenient ==
    /\ startPc = "check"
    /\ StartThreads
    /\ UNCHANGED stopPc
    /\ UNCHANGED <<sttFields, ws_thread, sttChan, token, sttHist, chatVars>>

\* start(): if not self.session_created: self.stop(); raise
SttStartCheck ==
    /\ startPc = "check"
    /\ IF session_created
       THEN /\ StartThreads
            /\ UNCHANGED stopPc
       ELSE /\ startPc' = "stopping"
            /\ stopPc' = "flag"
            /\ UNCHANGED <<audio_thread, transmit_thread, deltaGen, fullGen>>
    /\ UNCHANGED <<sttFields, ws_thread, sttChan, token, sttHist, chatVars>>

\* start(): stop() has returned; raise RuntimeError("Timed out ...")
SttStartRaise ==
    /\ startPc = "stopping"
    /\ stopPc = "returned"
    /\ startPc' = "raised_timeout"
    /\ UNCHANGED <<sttFields, sttThreads, sttChan, token, stopPc, deltaGen, fullGen>>
    /\ UNCHANGED <<sttHist, chatVars>>

\* the owner of the client calls stop()
SttStopCall ==
    /\ startPc = "returned"
    /\ stopPc = "idle"
    /\ stopPc' = "flag"
    /\ UNCHANGED <<sttFields, sttThreads, sttChan, startPc, token, deltaGen, fullGen>>
    /\ UNCHANGED <<sttHist, chatVars>>

\* stop(): self.keep_running = False
SttStopFlag ==
    /\ stopPc = "flag"
    /\ keep_running' = FALSE
    /\ stopPc' = "close"
    /\ UNCHANGED <<session_created, speech_started, speech_stopped, audio_queue>>
    /\ UNCHANGED <<delta_transcript_queue, full_transcript_queue>>
    /\ UNCHANGED <<sttThreads, sttChan, startPc, token, deltaGen, fullGen>>
    /\ UNCHANGED <<sttHist, chatVars>>

\* stop(): if self.ws: self.ws.close()
SttStopClose ==
    /\ stopPc = "close"
    /\ sttWs' = IF sttWs \in {"connecting", "open"} THEN "closing" ELSE sttWs
    /\ stopPc' = "join"
    /\ UNCHANGED <<sttFields, sttThreads, sttHello, startPc, token, deltaGen, fullGen>>
    /\ UNCHANGED <<sttHist, chatVars>>

\* stop(): the three join(timeout=2) calls are over: each thread has
\* ended, or its two seconds have passed
SttStopJoin ==
    /\ stopPc = "join"
    /\ stopPc' = "returned"
    /\ UNCHANGED <<sttFields, sttThreads, sttChan, startPc, token, deltaGen, fullGen>>
    /\ UNCHANGED <<sttHist, chatVars>>

\* the websocket thread: the handshake succeeds; on_open only logs
SttWsOpen ==
    /\ sttWs = "connecting"
    /\ sttWs' = "open"
    /\ sttHello' = TRUE
    /\ UNCHANGED <<sttFields, sttThreads, sttCallers, sttHist, chatVars>>

\* the connection fails or the backend drops it: on_close
SttWsDrop ==
    /\ sttWs \in {"connecting", "open"}
    /\ stt_on_close
    /\ UNCHANGED <<session_created, speech_started, speech_stopped, audio_queue>>
    /\ UNCHANGED <<delta_transcript_queue, full_transcript_queue>>
    /\ UNCHANGED <<audio_thread, transmit_thread, sttCallers, sttHist, chatVars>>

\* run_forever ends after ws.close(): on_close
SttWsOnClose ==
    /\ sttWs = "closing"
    /\ stt_on_close
    /\ UNCHANGED <<session_created, speech_started, speech_stopped, audio_queue>>
    /\ UNCHANGED <<delta_transcript_queue, full_transcript_queue>>
    /\ UNCHANGED <<audio_thread, transmit_thread, sttCallers, sttHist, chatVars>>

\* transcription_session.created arrives
SttRecvCreated ==
    /\ sttWs = "open"
    /\ sttHello
    /\ sttHello' = FALSE
    /\ stt_on_message("transcription_session.created", "None")
    /\ UNCHANGED <<keep_running, audio_queue, sttThreads, sttWs, sttCallers>>
    /\ UNCHANGED <<sttHist, chatVars>>

\* a frame of the transcription arrives
SttRecv ==
    /\ sttWs = "open"
    /\ ~sttHello
    /\ Len(sttEvents) < MaxSttEvents
    /\ \E type \in SttFrameTypes :
          LET text == SttText(Len(sttEvents) + 1)
          IN  /\ stt_on_message(type, text)
              /\ sttEvents' = Append(sttEvents, [type |-> type, text |-> text])
    /\ UNCHANGED <<keep_running, audio_queue, sttThreads, sttChan, sttCallers>>
    /\ UNCHANGED <<leftover, tokenRequests, httpStatus, yieldedDelta, yieldedFull, nChunks,
                   sttSent, chatVars>>

\* delta_stream: while self.keep_running
DeltaTest ==
    /\ deltaGen \in {"new", "test"}
    /\ deltaGen' = IF keep_running THEN "get" ELSE "ended"
    /\ UNCHANGED <<sttFields, sttThreads, sttChan, startPc, token, stopPc, fullGen>>
    /\ UNCHANGED <<sttHist, chatVars>>

\* delta_stream: self.delta_transcript_queue.get(timeout=0.5); yield, or
\* queue.Empty and continue
DeltaGet ==
    /\ deltaGen = "get"
    /\ queue_get(delta_transcript_queue)
    /\ IF delta_transcript_queue # <<>>
       THEN /\ yieldedDelta' = Append(yieldedDelta, Head(delta_transcript_queue))
            /\ delta_transcript_queue' = Tail(delta_transcript_queue)
       ELSE UNCHANGED <<yieldedDelta, delta_transcript_queue>>
    /\ deltaGen' = "test"
    /\ UNCHANGED <<session_created, speech_started, speech_stopped, keep_running,
                   audio_queue, full_transcript_queue>>
    /\ UNCHANGED <<sttThreads, sttChan, startPc, token, stopPc, fullGen>>
    /\ UNCHANGED <<leftover, tokenRequests, httpStatus, sttEvents, yieldedFull, nChunks,
                   sttSent, chatVars>>

\* full_transcript_stream: while self.keep_running
FullTest ==
    /\ fullGen \in {"new", "test"}
    /\ fullGen' = IF keep_running THEN "get" ELSE "ended"
    /\ UNCHANGED <<sttFields, sttThreads, sttChan, startPc, token, stopPc, deltaGen>>
    /\ UNCHANGED <<sttHist, chatVars>>

\* full_transcript_stream: self.full_transcript_queue.get(timeout=0.5)
FullGet ==
    /\ fullGen = "get"
    /\ queue_get(full_transcript_queue)
    /\ IF full_transcript_queue # <<>>
       THEN /\ yieldedFull' = Append(yieldedFull, Head(full_transcript_queue))
            /\ full_transcript_queue' = Tail(full_transcript_queue)
       ELSE UNCHANGED <<yieldedFull, full_transcript_queue>>
    /\ fullGen' = "test"
    /\ UNCHANGED <<session_created, speech_started, speech_stopped, keep_running,
                   audio_queue, delta_transcript_queue>>
    /\ UNCHANGED <<sttThreads, sttChan, startPc, token, stopPc, deltaGen>>
    /\ UNCHANGED <<leftover, tokenRequests, httpStatus, sttEvents, yieldedDelta, nChunks,
                   sttSent, chatVars>>

\* record_audio: one round of while self.keep_running, or the finally
\* clause with its sentinel
RecordAudio ==
    /\ audio_thread = "running"
    /\ IF keep_running
       THEN /\ nChunks < MaxChunks
            /\ nChunks' = nChunks + 1
            /\ audio_queue' = Append(audio_queue, nChunks + 1)
            /\ UNCHANGED audio_thread
       ELSE /\ audio_queue' = Append(audio_queue, 0)
            /\ audio_thread' = "ended"
            /\ UNCHANGED nChunks
    /\ UNCHANGED <<session_created, speech_started, speech_stopped, keep_running>>
    /\ UNCHANGED <<delta_transcript_queue, full_transcript_queue>>
    /\ UNCHANGED <<ws_thread, transmit_thread, sttChan, sttCallers>>
    /\ UNCHANGED <<leftover, tokenRequests, httpStatus, sttEvents, yieldedDelta, yieldedFull,
                   sttSent, chatVars>>

\* transmit_audio: one round of while self.keep_running; queue.Empty is
\* caught outside the loop, the sentinel and a failed send break out of it
TransmitAudio ==
    /\ transmit_thread = "running"
    /\ IF keep_running /\ audio_queue # <<>>
       THEN /\ audio_queue' = Tail(audio_queue)
            /\ IF Head(audio_queue) # 0 /\ sttWs = "open"
               THEN /\ sttSent' = Append(sttSent, Head(audio_queue))
                    /\ UNCHANGED transmit_thread
               ELSE /\ transmit_thread' = "ended"
                    /\ UNCHANGED sttSent
       ELSE /\ transmit_thread' = "ended"
            /\ UNCHANGED <<audio_queue, sttSent>>
    /\ UNCHANGED <<session_created, speech_started, speech_stopped, keep_running>>
    /\ UNCHANGED <<delta_transcript_queue, full_transcript_queue>>
    /\ UNCHANGED <<ws_thread, audio_thread, sttChan, sttCallers>>
    /\ UNCHANGED <<leftover, tokenRequests, httpStatus, sttEvents, yieldedDelta, yieldedFull,
                   nChunks, chatVars>>

SttStart ==
    \/ SttStartToken
    \/ SttStartConnect
    \/ SttStartReady
    \/ SttStartTimeout
    \/ SttStartCheck
    \/ SttStartRaise

SttStop ==
    \/ SttStopCall
    \/ SttStopFlag
    \/ SttStopClose
    \/ SttStopJoin

SttWsThread ==
    \/ SttWsOpen
    \/ SttWsDrop
    \/ SttWsOnClose
    \/ SttRecvCreated
    \/ SttRecv

SttStreams == DeltaTest \/ DeltaGet \/ FullTest \/ FullGet

SttAudio == RecordAudio \/ TransmitAudio

NextStt ==
    \/ SttStart
    \/ SttStop
    \/ SttWsThread
    \/ SttStreams
    \/ SttAudio

\* the STT client feeding a chat client that has not been started
InitSttOnly ==
    /\ InitChat
    /\ input_mode = "stream"
    /\ keyboard = [keys |-> Keys, rests |-> RestTexts]
    /\ InitStt
    /\ InitTts
    /\ InitBridge

SpecStt == InitSttOnly /\ [][NextStt]_vars

\* the channel and the two generators, whose consumers keep asking for
\* the next item; the audio threads, which write none of the fields the
\* generators read, are left out
NextSttStreams ==
    \/ SttStart
    \/ SttStop
    \/ SttWsThread
    \/ SttStreams

SpecSttFair ==
    /\ InitSttOnly
    /\ [][NextSttStreams]_vars
    /\ WF_vars(DeltaTest) /\ WF_vars(DeltaGet)
    /\ WF_vars(FullTest) /\ WF_vars(FullGet)

\* the deltas (the completed transcripts) among the frames handled so far
DeltaTexts ==
    LET fs == SelectSeq(sttEvents, LAMBDA e :
                  e.type = "conversation.item.input_audio_transcription.delta")
    IN  [i \in 1..Len(fs) |-> fs[i].text]

FinalTexts ==
    LET fs == SelectSeq(sttEvents, LAMBDA e :
                  e.type = "conversation.item.input_audio_transcription.completed")
    IN  [i \in 1..Len(fs) |-> fs[i].text]

\* C15: what the delta stream has yielded, followed by what still waits in
\* its queue, is the texts of the delta frames in arrival order, each once;
\* the same for the final stream and the completed transcripts; so the
\* speech_started and speech_stopped frames are in neither stream.
C15_StreamsYieldInOrder ==
    /\ yieldedDelta \o delta_transcript_queue = DeltaTexts
    /\ yieldedFull \o full_transcript_queue = FinalTexts

\* two deltas and the completed transcript have been handled and all three
\* texts yielded
C15_Witness ==
    /\ Len(yieldedDelta) = 2
    /\ Len(yieldedFull) = 1
    /\ yieldedDelta = DeltaTexts
    /\ yieldedFull = FinalTexts
    /\ sttWs = "open"

\* C16: once the STT channel is closed (by on_close or by stop()), both
\* generators end, also when their queues are empty.
C16_StreamsTerminate ==
    (deltaGen # "none" /\ sttWs \in {"closing", "closed"})
        ~> (deltaGen = "ended" /\ fullGen = "ended")

\* both generators have ended on a closed channel with nothing queued
C16_Witness ==
    /\ deltaGen = "ended"
    /\ fullGen = "ended"
    /\ sttWs = "closed"
    /\ delta_transcript_queue = <<>>
    /\ full_transcript_queue = <<>>

\* the callbacks of the LLM channel
Callbacks ==
    {"on_open", "on_close", "session.created", "response.text.delta",
     "response.done", "other"}

\* C17: once the input thread's self.ws.close() has returned (the thread
\* has left its loop), no callback of the channel runs.
C17_NoCallbackAfterClose == inputPc = "stopped" => lastOp.op \notin Callbacks

\* C18: when start() has raised its timeout error the channel is not open,
\* session_created and keep_running are false, and neither audio thread
\* was started.
C18_ConnectTimeout ==
    startPc = "raised_timeout" =>
        /\ sttWs # "open"
        /\ ~session_created
        /\ ~keep_running
        /\ audio_thread = "None"
        /\ transmit_thread = "None"

\* C19: get_ephemeral_token makes one request per call and returns the
\* secret exactly on status 200; when it returns none, start() raises
\* with no channel created, keep_running not set and no thread started.
C19_TokenOnceAndAuthFailure ==
    /\ startPc # "idle" =>
          /\ tokenRequests = 1
          /\ (token = "secret") = (httpStatus = 200)
    /\ (startPc # "idle" /\ httpStatus # 200) =>
          /\ startPc \in {"token", "raised_auth"}
          /\ sttWs = "none"
          /\ ~keep_running
          /\ ws_thread = "None"
          /\ audio_thread = "None"
          /\ transmit_thread = "None"

\* start() has raised after a 401 answer to its one token request
C19_Witness ==
    /\ startPc = "raised_auth"
    /\ httpStatus = 401
    /\ tokenRequests = 1

\* the text of the response to the request that made turn t
ResponseChars(t) == {Fragment(t, k) : k \in 1..MaxFrags}

\* C20: the complete-response payload delivered to a client holds text of
\* the response to that client's own request only.
C20_PayloadIsOwnResponse ==
    \A c \in Clients :
        requests[c].pc = "done" =>
            \A i \in 1..Len(requests[c].full_response) :
                requests[c].full_response[i] \in ResponseChars(requests[c].turn)

\* C21: interrupt_response and the response.done branch of on_message act
\* as if one ran after the other: on an open channel the session is not
\* left with interrupted = TRUE when the backend has no response in flight.
C21_InterruptSerialWithDone ==
    (wsState = "open" /\ interrupted) => backend # <<>>

(***************************************************************************)
(* The program of LLM.py's __main__: stt.start(), then a chat client in    *)
(* stream mode whose input_stream is the full-transcript generator, then   *)
(* chat_client.run().  Nothing follows run(); the delta generator is       *)
(* dropped without being iterated.                                         *)
(***************************************************************************)
\* chat_client.run() is called once stt.start() has returned
MainRun ==
    /\ startPc = "returned"
    /\ Run

\* run(): KeyboardInterrupt in the wait loop
MainKeyboardInterrupt ==
    /\ mainPc = "waiting"
    /\ should_exit' = TRUE
    /\ ws_close
    /\ mainPc' = "returned"
    /\ lastOp' = Op("ws.close", "None")
    /\ UNCHANGED sent
    /\ UNCHANGED <<sessVars, envVars, queueVars, histVars>>
    /\ UNCHANGED <<inputPc, user_input, input_from_queue, streamPc, watchers, apiPc>>

\* process_stream_input asks the generator for the next text: the
\* generator runs up to its next yield
MainStreamTest ==
    /\ streamPc = "running"
    /\ nInputs = Len(yieldedFull)
    /\ FullTest

MainStreamGet ==
    /\ streamPc = "running"
    /\ nInputs = Len(yieldedFull)
    /\ FullGet

\* process_stream_input: the body of the loop for the text just yielded
MainStreamBody ==
    /\ streamPc = "running"
    /\ nInputs < Len(yieldedFull)
    /\ nInputs < MaxInputs
    /\ nInputs' = nInputs + 1
    /\ IF should_exit
       THEN streamPc' = "ended" /\ UNCHANGED queueVars
       ELSE /\ UNCHANGED streamPc
            /\ add_input_to_queue(<<yieldedFull[nInputs + 1]>>)
    /\ lastOp' = Op("process_stream_input", "None")
    /\ UNCHANGED <<chanVars, sessVars, envVars, should_exit>>
    /\ UNCHANGED <<mainPc, inputPc, user_input, input_from_queue, watchers, apiPc>>
    /\ UNCHANGED <<turn, delivered, emitted, interruptedTurns, completed>>

\* process_stream_input: the generator is exhausted
MainStreamEnd ==
    /\ fullGen = "ended"
    /\ StreamEnd

MainProducer == MainStreamTest \/ MainStreamGet \/ MainStreamBody \/ MainStreamEnd

MainInputThread ==
    \/ InputStart
    \/ InputTopQueue
    \/ InputRespWait
    \/ InputCmd
    \/ InputRequest

\* the websocket thread of the chat client; in stream mode no request is
\* refused and no session.update is sent, so no frame without a branch in
\* on_message is in flight
MainWsThread ==
    \/ WsOpen
    \/ WsClosed
    \/ RecvSessionCreated
    \/ RecvTextDelta
    \/ RecvBlankDelta
    \/ RecvResponseDone

NextMain ==
    \/ SttStart
    \/ SttStopFlag
    \/ SttStopClose
    \/ SttStopJoin
    \/ SttWsThread
    \/ SttAudio
    \/ MainRun
    \/ MainKeyboardInterrupt
    \/ RunReturn
    \/ MainWsThread
    \/ WsOnClose
    \/ MainInputThread
    \/ MainProducer

SpecMain == InitSttOnly /\ [][NextMain]_vars

\* C22: when run() has returned, which ends the program, the LLM channel
\* and the STT channel have been closed and keep_running, on which the
\* transcript generator and with it process_stream_input loop, is false.
C22_ShutdownClosesBoth ==
    mainPc = "returned" =>
        /\ wsState \notin {"connecting", "open"}
        /\ sttWs \notin {"connecting", "open"}
        /\ ~keep_running

(***************************************************************************)
(* Undecodable frames.  The same program as SpecMain, without its audio    *)
(* threads, with a backend that may also send frames json.loads rejects.   *)
(***************************************************************************)
\* a handler that takes an undecodable frame for the end of the response
on_message_malformed_ends_turn ==
    /\ response_in_progress' = FALSE
    /\ UNCHANGED <<session_ready, current_response, debug_mode, user_input_buffer,
                   interrupted>>

\* OpenAIRealtimeChat.on_message: json.loads raises JSONDecodeError, which
\* the except clause prints
on_message_malformed ==
    /\ UNCHANGED response_in_progress
    /\ UNCHANGED <<session_ready, current_response, debug_mode, user_input_buffer,
                   interrupted>>

\* an undecodable frame arrives on the LLM channel
RecvMalformed ==
    /\ wsState = "open"
    /\ on_message_malformed
    /\ lastOp' = Op("malformed", "None")
    /\ UNCHANGED <<chanVars, envVars, queueVars, should_exit, threadVars, histVars>>

\* STT.on_message: json.loads raises out of the callback; run_forever's
\* callback wrapper catches the exception and hands it to on_error, which
\* logs it
stt_on_message_malformed ==
    UNCHANGED <<session_created, speech_started, speech_stopped,
                delta_transcript_queue, full_transcript_queue>>

\* an undecodable frame arrives on the STT channel
SttRecvMalformed ==
    /\ sttWs = "open"
    /\ Len(sttEvents) < MaxSttEvents
    /\ stt_on_message_malformed
    /\ sttEvents' = Append(sttEvents, [type |-> "malformed",
                                       text |-> SttText(Len(sttEvents) + 1)])
    /\ UNCHANGED <<keep_running, audio_queue, sttThreads, sttChan, sttCallers>>
    /\ UNCHANGED <<leftover, tokenRequests, httpStatus, yieldedDelta, yieldedFull, nChunks,
                   sttSent, chatVars>>

NextFrames ==
    \/ SttStart
    \/ SttStopFlag
    \/ SttStopClose
    \/ SttStopJoin
    \/ SttWsThread
    \/ SttRecvMalformed
    \/ MainRun
    \/ MainKeyboardInterrupt
    \/ RunReturn
    \/ MainWsThread
    \/ RecvMalformed
    \/ WsOnClose
    \/ MainInputThread
    \/ MainProducer

SpecFrames == InitSttOnly /\ [][NextFrames]_vars

\* the step is the handling of an undecodable frame on the LLM channel
LlmMalformedStep == lastOp'.op = "malformed" /\ lastOp.op # "malformed"
\* the step is the handling of an undecodable frame on the STT channel
SttMalformedStep ==
    /\ Len(sttEvents') = Len(sttEvents) + 1
    /\ sttEvents'[Len(sttEvents')].type = "malformed"

\* C23: handling an undecodable frame leaves the channel open and every
\* session field and queue as it was, on the LLM channel and on the STT
\* channel; and the frames that follow are processed as ever: the response
\* text is the concatenation of the turn's deltas, the final transcripts
\* are yielded in arrival order.
C23_MalformedFrameDropped ==
    [][ /\ LlmMalformedStep =>
              /\ wsState' = "open"
              /\ UNCHANGED <<chanVars, sessVars, queueVars, turn, delivered, emitted>>
        /\ SttMalformedStep =>
              /\ sttWs' = "open"
              /\ UNCHANGED <<sttFields, sttThreads, sttChan>>
        /\ (lastOp'.op = "response.done" /\ completed') =>
              current_response' = Concat(delivered')
        /\ yieldedFull' \o full_transcript_queue' = FinalTexts' ]_vars

\* an undecodable frame was handled on the LLM channel in the middle of a
\* response, and a final transcript that came after an undecodable frame of
\* the STT channel has been yielded
C23_Witness ==
    /\ lastOp.op = "malformed"
    /\ wsState = "open"
    /\ response_in_progress
    /\ current_response # <<>>
    /\ sttWs = "open"
    /\ sttEvents # <<>>
    /\ sttEvents[1].type = "malformed"
    /\ yieldedFull # <<>>

\* C24: the dispatcher's pending queue holds at most one input at any
\* moment.
C24_PendingQueueSingleSlot == Len(input_queue) <= 1

\* the step is on_message handling the response.done of the oldest
\* unfinished response, on an open channel
DoneStep ==
    /\ backend # <<>>
    /\ backend' = Tail(backend)
    /\ lastOp'.op = "response.done"
    /\ wsState' = "open"

\* the fragments the backend sent of a response, concatenated
ResponseText(r) == [k \in 1..r.n |-> Fragment(r.turn, k)]

\* C25: at the response.done of a turn that was not interrupted itself and
\* whose predecessor was interrupted, current_response is the
\* concatenation of the fragments of that turn's response.
C25_TurnAfterInterruptOwnText ==
    [][ (/\ DoneStep
         /\ (Head(backend).turn - 1) \in interruptedTurns
         /\ Head(backend).turn \notin interruptedTurns)
        => current_response' = ResponseText(Head(backend)) ]_vars

\* the step is the input thread sending its line as a user message
SubmitStep == inputPc = "cmd" /\ inputPc' = "request"

\* C26: when an input is submitted, no interrupting keystroke is left
\* behind: user_input_buffer is empty and no key watcher whose interrupt
\* succeeded still has its character to store.
C26_InterruptKeyMerged ==
    [][ SubmitStep =>
          /\ user_input_buffer = <<>>
          /\ \A w \in 1..Len(watchers) : watchers[w].pc # "store" ]_vars

\* C27: while the backend has still to deliver the response.done of the
\* current turn, and that turn was not interrupted, response_in_progress
\* is true.
C27_LateDoneKeepsTurn ==
    (/\ wsState = "open"
     /\ backend # <<>>
     /\ backend[Len(backend)].turn = turn
     /\ turn \notin interruptedTurns)
    => response_in_progress

\* the step is a call of request_response()
RequestStep == turn' = turn + 1

\* C28: a request_response() made while the channel is not connected
\* leaves response_in_progress and current_response as they were.
C28_RequestWhenNotConnected ==
    [][ (RequestStep /\ ~Connected) =>
            UNCHANGED <<response_in_progress, current_response>> ]_vars

\* the key-watcher threads that have not left key_watcher_thread
AliveWatchers == {w \in 1..Len(watchers) : watchers[w].pc # "exited"}

\* C29: at most one key-watcher thread is alive at any time.
C29_OneKeyWatcher == Cardinality(AliveWatchers) <= 1

\* the step is transmit_audio leaving its loop
TransmitEnds == transmit_thread = "running" /\ transmit_thread' = "ended"

\* C30: transmit_audio leaves its loop only when keep_running is false,
\* on the sentinel, or when a send fails; an empty audio queue does not
\* end it.
C30_TransmitKeepsRunning ==
    [][ TransmitEnds =>
          \/ ~keep_running
          \/ /\ audio_queue # <<>>
             /\ Head(audio_queue) = 0 \/ sttWs # "open" ]_vars

\* the events of a submission that the channel has carried
SubmissionSent ==
    \E i \in 1..Len(sent) :
        sent[i].type \in {"conversation.item.create", "response.create"}

\* C31: a conversation item or response request has been sent only if
\* session.created was received, and session_ready, on which the
\* dispatcher accepts input, is true only while the channel is open.
C31_NoSendBeforeReady ==
    /\ SubmissionSent => session_ready
    /\ session_ready => wsState = "open"

\* C32: start() has returned its generators only if
\* transcription_session.created was received, and no audio thread runs,
\* no chunk is recorded and none is transmitted before that event.
C32_StreamsAfterSessionCreated ==
    /\ startPc = "returned" => session_created
    /\ (deltaGen # "none" \/ fullGen # "none") => session_created
    /\ (audio_thread # "None" \/ transmit_thread # "None") => session_created
    /\ (nChunks > 0 \/ audio_queue # <<>> \/ sttSent # <<>>) => session_created

\* start() has returned, a chunk was recorded and transmitted
C32_Witness ==
    /\ startPc = "returned"
    /\ session_created
    /\ nChunks > 0
    /\ sttSent # <<>>

(***************************************************************************)
(* One STT instance used twice: stop(), then start() again.                *)
(***************************************************************************)
\* calls of start() on the instance in a run
MaxStarts == 2

\* the owner calls start() again after stop() has returned, its three
\* joins have seen the threads end and the consumers have run the two
\* generators to their end: token = self.get_ephemeral_token()
SttRestart ==
    /\ startPc = "returned"
    /\ stopPc = "returned"
    /\ deltaGen = "ended"
    /\ fullGen = "ended"
    /\ ws_thread = "ended"
    /\ audio_thread = "ended"
    /\ transmit_thread = "ended"
    /\ tokenRequests < MaxStarts
    /\ \E status \in HttpStatuses :
          /\ httpStatus' = status
          /\ token' = get_ephemeral_token(status)
    /\ tokenRequests' = tokenRequests + 1
    /\ startPc' = "token"
    /\ stopPc' = "idle"
    /\ UNCHANGED <<sttFields, sttThreads, sttChan, deltaGen, fullGen>>
    /\ UNCHANGED <<leftover, sttEvents, yieldedDelta, yieldedFull, nChunks, sttSent>>
    /\ UNCHANGED chatVars

NextRestart ==
    \/ SttStart
    \/ SttStop
    \/ SttRestart
    \/ SttWsThread
    \/ SttStreams
    \/ SttAudio

SpecRestart == InitSttOnly /\ [][NextRestart]_vars

\* x is an item of the sequence q
InSeq(x, q) == \E i \in 1..Len(q) : q[i] = x

\* a step that takes from a queue an item the last start() found in it
StaleItemTaken ==
    \/ /\ audio_queue # <<>>
       /\ audio_queue' = Tail(audio_queue)
       /\ InSeq(Head(audio_queue), leftover.audio)
    \/ /\ delta_transcript_queue # <<>>
       /\ delta_transcript_queue' = Tail(delta_transcript_queue)
       /\ InSeq(Head(delta_transcript_queue), leftover.delta)
    \/ /\ full_transcript_queue # <<>>
       /\ full_transcript_queue' = Tail(full_transcript_queue)
       /\ InSeq(Head(full_transcript_queue), leftover.full)

\* C33: after stop() and start() on the same instance, no audio chunk,
\* sentinel or transcript that the previous connection left in a queue is
\* taken from it by the new connection's transmit thread or generators.
C33_RestartIsFresh == [][~StaleItemTaken]_vars

(***************************************************************************)
(* The delta payloads of /chat/text (app/api/routes.py): event_generator   *)
(* polls the session every 100 ms while the response is in progress.       *)
(***************************************************************************)
\* chat_system.current_delta: the text of the last response.text.delta
\* frame received for the response, empty before the first one
current_delta == IF delivered = <<>> THEN <<>> ELSE delivered[Len(delivered)]

\* if chat_system.current_delta and chat_system.current_delta != last_sent:
\* yield the delta payload (and, in the loop, remember it in last_sent)
YieldDelta(r) ==
    IF current_delta # <<>> /\ current_delta # r.last_sent
    THEN [r EXCEPT !.deltas = Append(@, current_delta), !.last_sent = current_delta]
    ELSE r

\* event_generator: one round of `while chat_system.response_in_progress`,
\* up to its await asyncio.sleep(0.1)
RoutePoll(c) ==
    /\ requests[c].pc = "poll"
    /\ response_in_progress
    /\ SetRequest(c, YieldDelta(requests[c]))
    /\ lastOp' = Op("delta", "None")
    /\ UNCHANGED <<chanVars, sessVars, input_mode, keyboard, sttVars, queueVars,
                   should_exit, threadVars, histVars>>

\* event_generator: the loop ends; the remaining delta, if any, and the end
\* message with chat_system.current_response are yielded
RouteEnd(c) ==
    /\ requests[c].pc = "poll"
    /\ ~response_in_progress
    /\ SetRequest(c, [YieldDelta(requests[c]) EXCEPT
                          !.pc = "done", !.full_response = current_response])
    /\ lastOp' = Op("full_response", "None")
    /\ UNCHANGED <<chanVars, sessVars, input_mode, keyboard, sttVars, queueVars,
                   should_exit, threadVars, histVars>>

\* one client posts one message
RouteEventGenerator == RouteSend(1) \/ RouteRequest(1) \/ RoutePoll(1) \/ RouteEnd(1)

NextPoll ==
    \/ Run
    \/ MainWsThread
    \/ RouteEventGenerator

SpecPoll == Init /\ [][NextPoll]_vars

\* C34: when event_generator has yielded its end message, the delta
\* payloads it yielded before are the fragments received for the response,
\* each once and in arrival order, and their concatenation is full_response.
C34_EveryFragmentDelivered ==
    requests[1].pc = "done" =>
        /\ requests[1].deltas = delivered
        /\ Concat(requests[1].deltas) = requests[1].full_response

(***************************************************************************)
(* The speech synthesis: TTS.py.  The module starts the STT client, builds *)
(* the chat client and the TTS object, and calls tts.run(chat_client.run). *)
(***************************************************************************)
\* on_speech_started(time)
on_speech_started ==
    /\ stream' = IF stream # "None" THEN "paused" ELSE stream
    /\ is_speaking' = TRUE

\* on_speech_stopped(time)
on_speech_stopped ==
    /\ stream' = IF stream # "None" THEN "playing" ELSE stream
    /\ is_speaking' = FALSE

\* the speech frames, whose handlers the TTS object registers
SpeechFrameTypes ==
    {"input_audio_buffer.speech_started", "input_audio_buffer.speech_stopped"}

\* the STT client calls the handlers registered for the event of a frame
\* of this type; before TTS.__init__ there are none
event_handlers(type) ==
    IF ttsPc = "none"
    THEN UNCHANGED <<stream, is_speaking>>
    ELSE IF type = "input_audio_buffer.speech_started"
         THEN on_speech_started
         ELSE on_speech_stopped

\* tts = TTS(stt_instance=stt), after stt.start() has returned: the two
\* handlers are registered
TtsInit ==
    /\ ttsPc = "none"
    /\ startPc = "returned"
    /\ ttsPc' = "constructed"
    /\ UNCHANGED <<stream, is_speaking>>
    /\ UNCHANGED <<sttFields, sttThreads, sttChan, sttCallers, sttHist>>
    /\ UNCHANGED <<chanVars, sessVars, input_mode, keyboard, requests, queueVars,
                   should_exit, threadVars, histVars, lastOp, bridgeVars>>

\* tts.run(chat_client.run): chat_stream() is called, and the chat client
\* runs until its run() returns
TtsRunChat ==
    /\ ttsPc = "constructed"
    /\ ttsPc' = "chat"
    /\ UNCHANGED <<stream, is_speaking>>
    /\ UNCHANGED <<sttFields, sttThreads, sttChan, sttCallers, sttHist>>
    /\ UNCHANGED <<chanVars, sessVars, input_mode, keyboard, requests, queueVars,
                   should_exit, threadVars, histVars, lastOp, bridgeVars>>

\* run(): chat_stream() has returned; self.stream = TextToAudioStream(engine),
\* feed and play_async
TtsRunStream ==
    /\ ttsPc = "chat"
    /\ ttsPc' = "synthesizing"
    /\ stream' = "playing"
    /\ UNCHANGED is_speaking
    /\ UNCHANGED <<sttFields, sttThreads, sttChan, sttCallers, sttHist>>
    /\ UNCHANGED <<chanVars, sessVars, input_mode, keyboard, requests, queueVars,
                   should_exit, threadVars, histVars, lastOp, bridgeVars>>

\* a speech_started or speech_stopped frame arrives: on_message, and the
\* handlers of the event
TtsRecvSpeech ==
    /\ sttWs = "open"
    /\ ~sttHello
    /\ Len(sttEvents) < MaxSttEvents
    /\ \E type \in SpeechFrameTypes :
          LET text == SttText(Len(sttEvents) + 1)
          IN  /\ stt_on_message(type, text)
              /\ sttEvents' = Append(sttEvents, [type |-> type, text |-> text])
              /\ event_handlers(type)
    /\ UNCHANGED <<keep_running, audio_queue, sttThreads, sttChan, sttCallers>>
    /\ UNCHANGED <<leftover, tokenRequests, httpStatus, yieldedDelta, yieldedFull,
                   nChunks, sttSent, ttsPc>>
    /\ UNCHANGED <<chanVars, sessVars, input_mode, keyboard, requests, queueVars,
                   should_exit, threadVars, histVars, lastOp, bridgeVars>>

TtsModule == TtsInit \/ TtsRunChat \/ TtsRunStream

TtsWsThread ==
    \/ SttWsOpen
    \/ SttWsDrop
    \/ SttWsOnClose
    \/ SttRecvCreated
    \/ TtsRecvSpeech

NextTts ==
    \/ SttStart
    \/ SttStopFlag
    \/ SttStopClose
    \/ SttStopJoin
    \/ TtsWsThread
    \/ TtsModule

SpecTts == InitSttOnly /\ [][NextTts]_vars

\* C35: whenever the TTS object has an output stream, the stream is paused
\* exactly while user speech is in progress (is_speaking), also when run()
\* created it after the SpeechStarted event.
C35_PausedWhileSpeaking ==
    stream # "None" => (is_speaking <=> stream = "paused")

(***************************************************************************)
(* The telephony bridge: server.py, handle_media_stream.  Two coroutines   *)
(* of one event loop relay between the Twilio socket and the OpenAI        *)
(* connection; they interleave at their awaits.                            *)
(***************************************************************************)
\* audio deltas OpenAI sends in a call
MaxDeltas == 2

\* data['start']['streamSid'] of the call
StreamSid == "MZ1"

\* what no step of the bridge changes
appVars ==
    <<chanVars, sessVars, input_mode, keyboard, requests, queueVars, should_exit,
      threadVars, histVars, lastOp, sttFields, sttThreads, sttChan, sttCallers,
      sttHist, ttsVars>>

\* the frames OpenAI sends after the connection and the session update
OpenaiHello == <<[type |-> "session.created", delta |-> 0],
                 [type |-> "session.updated", delta |-> 0]>>

\* async with websockets.connect(...) as openai_ws, send_session_update and
\* asyncio.gather(receive_from_twilio(), send_to_twilio()); a connection
\* that fails is printed and the handler returns
BridgeConnect ==
    /\ bridgePc = "accepted"
    /\ \/ /\ openai' = "open"
          /\ openaiOut' = OpenaiHello
          /\ bridgePc' = "gather"
          /\ recvPc' = "iter"
          /\ sendPc' = "iter"
       \/ /\ bridgePc' = "returned"
          /\ UNCHANGED <<openai, openaiOut, recvPc, sendPc>>
    /\ UNCHANGED <<stream_sid, twilio, twilioNext, heard, nDeltas, sendMsg, toTwilio>>
    /\ UNCHANGED appVars

\* a start event that leaves stream_sid alone
on_twilio_start_dropped == UNCHANGED stream_sid

\* elif data['event'] == 'start': stream_sid = data['start']['streamSid']
on_twilio_start == stream_sid' = StreamSid

\* receive_from_twilio: the next message of websocket.iter_text().  Twilio
\* sends connected, then start, then media events
TwilioMessage ==
    /\ recvPc = "iter"
    /\ twilio = "open"
    /\ IF twilioNext = "connected"
       THEN /\ twilioNext' = "start"
            /\ UNCHANGED <<stream_sid, recvPc>>
       ELSE IF twilioNext = "start"
       THEN /\ on_twilio_start
            /\ twilioNext' = "media"
            /\ UNCHANGED recvPc
       ELSE /\ recvPc' = "send"
            /\ UNCHANGED <<stream_sid, twilioNext>>
    /\ UNCHANGED <<bridgePc, sendPc, twilio, openai, heard, nDeltas, openaiOut,
                   sendMsg, toTwilio>>
    /\ UNCHANGED appVars

\* receive_from_twilio: await openai_ws.send(json.dumps(audio_append)), or
\* ConnectionClosed and break
RecvForward ==
    /\ recvPc = "send"
    /\ IF openai = "open"
       THEN /\ heard' = TRUE
            /\ recvPc' = "iter"
       ELSE /\ recvPc' = "done"
            /\ UNCHANGED heard
    /\ UNCHANGED <<bridgePc, sendPc, stream_sid, twilio, twilioNext, openai, nDeltas,
                   openaiOut, sendMsg, toTwilio>>
    /\ UNCHANGED appVars

\* Twilio disconnects: the call is over
TwilioDisconnect ==
    /\ twilio = "open"
    /\ bridgePc = "gather"
    /\ twilio' = "closed"
    /\ UNCHANGED <<bridgePc, recvPc, sendPc, stream_sid, twilioNext, openai, heard,
                   nDeltas, openaiOut, sendMsg, toTwilio>>
    /\ UNCHANGED appVars

\* receive_from_twilio: the socket is disconnected.  iter_text ends the
\* iteration on the disconnect, and the coroutine returns; a
\* WebSocketDisconnect that reaches the except clause leads to
\* openai_ws.close()
RecvIterEnd ==
    /\ recvPc = "iter"
    /\ twilio = "closed"
    /\ recvPc' \in {"done", "closing"}
    /\ UNCHANGED <<bridgePc, sendPc, stream_sid, twilio, twilioNext, openai, heard,
                   nDeltas, openaiOut, sendMsg, toTwilio>>
    /\ UNCHANGED appVars

\* receive_from_twilio: except WebSocketDisconnect: await openai_ws.close()
RecvCloseOpenai ==
    /\ recvPc = "closing"
    /\ openai' = "closed"
    /\ recvPc' = "done"
    /\ UNCHANGED <<bridgePc, sendPc, stream_sid, twilio, twilioNext, heard, nDeltas,
                   openaiOut, sendMsg, toTwilio>>
    /\ UNCHANGED appVars

\* OpenAI sends one more audio delta of its answer to what it has heard
OpenaiDelta ==
    /\ openai = "open"
    /\ heard
    /\ nDeltas < MaxDeltas
    /\ nDeltas' = nDeltas + 1
    /\ openaiOut' = Append(openaiOut, [type |-> "response.audio.delta",
                                       delta |-> nDeltas + 1])
    /\ UNCHANGED <<bridgePc, recvPc, sendPc, stream_sid, twilio, twilioNext, openai,
                   heard, sendMsg, toTwilio>>
    /\ UNCHANGED appVars

\* OpenAI closes the connection
OpenaiClose ==
    /\ openai = "open"
    /\ openai' = "closed"
    /\ UNCHANGED <<bridgePc, recvPc, sendPc, stream_sid, twilio, twilioNext, heard,
                   nDeltas, openaiOut, sendMsg, toTwilio>>
    /\ UNCHANGED appVars

\* send_to_twilio: the next message of `async for openai_message in
\* openai_ws`; only an audio delta is relayed
SendNext ==
    /\ sendPc = "iter"
    /\ openaiOut # <<>>
    /\ openaiOut' = Tail(openaiOut)
    /\ IF Head(openaiOut).type = "response.audio.delta"
       THEN /\ sendPc' = "send"
            /\ sendMsg' = Head(openaiOut).delta
       ELSE UNCHANGED <<sendPc, sendMsg>>
    /\ UNCHANGED <<bridgePc, recvPc, stream_sid, twilio, twilioNext, openai, heard,
                   nDeltas, toTwilio>>
    /\ UNCHANGED appVars

\* send_to_twilio: the connection is closed and its messages are read: the
\* iteration ends, or ConnectionClosed is caught
SendIterEnd ==
    /\ sendPc = "iter"
    /\ openaiOut = <<>>
    /\ openai = "closed"
    /\ sendPc' = "done"
    /\ UNCHANGED <<bridgePc, recvPc, stream_sid, twilio, twilioNext, openai, heard,
                   nDeltas, openaiOut, sendMsg, toTwilio>>
    /\ UNCHANGED appVars

\* send_to_twilio: await websocket.send_json(audio_delta) with
\* "streamSid": stream_sid; an exception is printed and the loop goes on
SendToTwilio ==
    /\ sendPc = "send"
    /\ toTwilio' = IF twilio = "open"
                   THEN Append(toTwilio, [streamSid |-> stream_sid,
                                          payload |-> sendMsg])
                   ELSE toTwilio
    /\ sendPc' = "iter"
    /\ UNCHANGED <<bridgePc, recvPc, stream_sid, twilio, twilioNext, openai, heard,
                   nDeltas, openaiOut, sendMsg>>
    /\ UNCHANGED appVars

\* handle_media_stream: gather is over, the async with block closes
\* openai_ws, and the handler returns
GatherDone ==
    /\ bridgePc = "gather"
    /\ recvPc = "done"
    /\ sendPc = "done"
    /\ openai' = "closed"
    /\ bridgePc' = "returned"
    /\ UNCHANGED <<recvPc, sendPc, stream_sid, twilio, twilioNext, heard, nDeltas,
                   openaiOut, sendMsg, toTwilio>>
    /\ UNCHANGED appVars

receive_from_twilio == TwilioMessage \/ RecvForward \/ RecvIterEnd \/ RecvCloseOpenai

send_to_twilio == SendNext \/ SendIterEnd \/ SendToTwilio

NextBridge ==
    \/ BridgeConnect
    \/ receive_from_twilio
    \/ send_to_twilio
    \/ GatherDone
    \/ TwilioDisconnect
    \/ OpenaiDelta
    \/ OpenaiClose

SpecBridge == InitSttOnly /\ [][NextBridge]_vars

\* the event loop runs every coroutine that can go on, and Twilio keeps
\* sending media while the call lasts; neither side is assumed to end
SpecBridgeFair ==
    /\ InitSttOnly
    /\ [][NextBridge]_vars
    /\ WF_vars(BridgeConnect)
    /\ WF_vars(TwilioMessage) /\ WF_vars(RecvForward)
    /\ WF_vars(RecvIterEnd) /\ WF_vars(RecvCloseOpenai)
    /\ WF_vars(SendNext) /\ WF_vars(SendIterEnd) /\ WF_vars(SendToTwilio)
    /\ WF_vars(GatherDone)

\* C36: once the Twilio socket is disconnected or the OpenAI connection is
\* closed, both relay tasks end, the OpenAI connection is closed and
\* handle_media_stream returns.
C36_BridgeTearsDown ==
    (twilio = "closed" \/ openai = "closed") ~>
        (/\ bridgePc = "returned"
         /\ openai = "closed"
         /\ recvPc = "done"
         /\ sendPc = "done")

\* C37: every media event sent to Twilio carries the streamSid of the
\* start event, and the deltas are relayed in the order OpenAI sent them.
C37_StreamSidAndOrder ==
    /\ \A i \in 1..Len(toTwilio) : toTwilio[i].streamSid = StreamSid
    /\ \A i, j \in 1..Len(toTwilio) :
          i < j => toTwilio[i].payload < toTwilio[j].payload

C37_Witness ==
    /\ Len(toTwilio) = MaxDeltas
    /\ \A i \in 1..Len(toTwilio) : toTwilio[i].streamSid = StreamSid

(***************************************************************************)
(* The end of a run of the chat client.                                    *)
(***************************************************************************)
\* the chat client in stream mode
InitStream ==
    /\ Init
    /\ input_mode = "stream"

NextExit ==
    \/ Run
    \/ RunReturn
    \/ WsThread
    \/ WsOnClose
    \/ MainInputThread
    \/ StreamYield
    \/ StreamEnd

\* the main thread's loop goes on whenever it can: every 100 ms it tests
\* wst.is_alive() and should_exit again
SpecExit == InitStream /\ [][NextExit]_vars /\ WF_vars(RunReturn)

\* C38: once the exit directive has been processed or the websocket thread
\* has ended, run() returns, and no event is transmitted any more.
C38_ExitEndsRun ==
    /\ (should_exit \/ wsState = "closed") ~> mainPc = "returned"
    /\ [][(should_exit \/ wsState = "closed") => sent' = sent]_vars

C38_Witness ==
    /\ should_exit
    /\ mainPc = "returned"
    /\ inputPc = "stopped"
    /\ \E i \in 1..Len(sent) : sent[i].type = "conversation.item.create"

\* C39: in stream mode a text the input stream yields twice in a row is
\* enqueued once: as long as every text yielded so far was enqueued, no two
\* neighbours in the queue's history are equal.
C39_StreamDedupe ==
    (input_mode = "stream" /\ Len(enqueued) = nInputs) =>
        \A i \in 1..(Len(enqueued) - 1) : enqueued[i] # enqueued[i + 1]

====
